---- MODULE Spec2Model ----
(***************************************************************************)
(* A model of the chunk orchestration of ocr_pipeline: the per-directory   *)
(* stage runners (clean.py, transform.py), the classifier router           *)
(* (classify.py), the combiner (combine.py), the page splitter             *)
(* (preprocess.py), the batch runner and the pipeline run (runner.py,      *)
(* project.py), the sentence packer (splitter.py) and the narration audio  *)
(* (audio.py).                                                             *)
(*                                                                         *)
(* Texts are sequences of one-character strings, so that trimming,         *)
(* lower-casing, substring search and regular-expression matching are      *)
(* computed character by character as the Python code computes them.      *)
(* Each subsystem has its own specification (SpecStage, SpecStageFair,     *)
(* SpecClassify, SpecSlice, SpecCombine, SpecCombineOrder, SpecSplit,      *)
(* SpecResplit, SpecNames, SpecBatch, SpecRun, SpecSplitLong, SpecPolly)   *)
(* over its own group of variables.                                        *)
(***************************************************************************)
EXTENDS Integers, Sequences, FiniteSets, TLC

VARIABLES
    \* ---- stage runner (clean_chunks / translate_chunks / rewrite_for_audio_chunks)
    stageKind,     \* which runner: "clean", "translate" or "rewrite"
    overwrite,     \* the overwrite argument of this invocation (clean only)
    max_workers,   \* the max_workers argument of this invocation
    outDir,        \* output directory: unit -> content, or NoFile
    task,          \* unit -> state of the task submitted for it
    reported,      \* sequence of <<unit, status>> in the order the main thread saw them
    stagePc,       \* "idle", "running", "returned" or "raised"
    runNo,         \* number of invocations started so far
    outAtStart,    \* history: outDir when the current invocation started
    calls,         \* history: units whose transform was called in this invocation
    writes,        \* history: units whose output was written in this invocation
    raisedNow,     \* history: units whose transform raised in this invocation
    prevErrors,    \* history: units reported "error" by the previous invocation
    prevOverwrite, \* history: overwrite argument of the previous invocation
    \* ---- classifier router (classify_chunks)
    clsDir,        \* classified_chunks: label -> (unit -> content, or NoFile)
    clsPc,         \* "idle", "running" or "returned"
    clsTodo,       \* units not yet handed to classify_chunk in this invocation
    clsRuns,       \* number of invocations started so far
    classified,    \* history: the last classify_chunk: its unit, the answer, the label
    \* ---- combiner (combine_all)
    listing,       \* the files of the input directories, in the order they were created
    input_dirs,    \* the input_dirs argument of the last combine_all
    pages,         \* history: the pages list combine_all built
    seen_headings, \* history: seen_headings when remove_redundant_headers returned
    output_file,   \* the text combine_all wrote, or NoFile
    listingB,      \* a second execution: the same files created in another order
    input_dirsB,   \* the input_dirs argument of the second execution's combine_all
    output_fileB,  \* the text the second execution's combine_all wrote, or NoFile
    \* ---- page splitter (split_ocr_text)
    ocr_text,      \* the text of the input file, or NoFile
    ocr_chunks,    \* the output folder: file name -> content
    splitWrites,   \* history: the <<name, content>> written by split_ocr_text, in order
    splitPc,       \* "idle" or "done"
    \* ---- batch runner (PipelineRunner.run_batch / PipelineRunner.run)
    input_files,   \* the input_files of the current run_batch call (stems of the files)
    args,          \* its keyword arguments: the stage flags and force
    file_idx,      \* position of the for loop in input_files
    batchPc,       \* "idle", "loop", "done" (returned) or "raised"
    runPc,         \* the step runner.run is about to take, or "idle"
    batches,       \* number of run_batch calls started so far
    tree,          \* project -> the paths under root_dir/<project> that exist
    ran,           \* history: positions of input_files for which runner.run was called
    skipped,       \* history: positions of input_files the loop skipped
    processed,     \* history: positions whose narration file existed when tested
    repeated,      \* history: this call follows a returned call with the same arguments
                   \* (force false in both)
    failed,        \* history: the projects a transform of which raised in this call
    prev_failed,   \* history: the projects a transform of which raised in the call before
    \* ---- one pipeline run with its unit tasks (PipelineRunner.run / Project.run)
    entry,         \* "none", "runner" (PipelineRunner.run) or "project" (Project.run)
    lang,          \* the language code the run was given
    epub_dir,      \* whether the directory epub/<lang> exists
    rpc,           \* position in the steps of the run; Len + 1 when it has returned
    rphase,        \* "ready", "tasks" (the step's executor is open) or "raised"
    rfiles,        \* the unit files that exist, as <<directory, unit>>
    rtasks,        \* the tasks submitted so far: [step, unit, state, wrote]
    rdocs,         \* output file of a combine step -> the <<directory, unit>> it holds
    rcalls,        \* history: the calls made to the language model
    exported,      \* history: how the last generate_epub ended, or "none"
    \* ---- sentence packer (split_long_chunks)
    long_text,     \* the text of the input unit page_0001, or NoFile
    max_words,     \* the max_words argument
    long_batches,  \* history: the batches list of the unit
    long_writes,   \* the <<name, content>> written to the output directory, in order
    \* ---- page file names (the enumerate loop of split_ocr_text)
    page_i,        \* the ordinal of one iteration of the loop, 0 before the call
    page_j,        \* the ordinal of a later iteration of the same call
    name_i,        \* the name of the file iteration page_i wrote
    name_j,        \* the name of the file iteration page_j wrote
    \* ---- narration audio (generate_audio_from_chunks / synthesize_speech_aws_polly)
    audioPc,       \* "idle", "loop", "polling", "polled", "returned" or "raised"
    chunk_idx,     \* position of the for loop in the sorted chunk files
    job,           \* the status of the current synthesis task at the service, or "none"
    task_status,   \* the TaskStatus the last poll of the current call read, or "none"
    submits,       \* history: start_speech_synthesis_task calls of the current call
    polls,         \* history: the statuses the polls of the current call read, in order
    downloads,     \* history: download_file calls of the current call
    audio_files,   \* the chunks whose audio file exists in output_dir
    \* ---- one classify_chunk call on a unit of any length
    chunk_text_in, \* the content of chunk_path, or NoFile before the call
    target_label,  \* the label directory of target
    target_text    \* the content of target after the call, or NoFile

stageVars == <<stageKind, overwrite, max_workers, outDir, task, reported, stagePc,
               runNo, outAtStart, calls, writes, raisedNow, prevErrors, prevOverwrite>>

clsVars == <<clsDir, clsPc, clsTodo, clsRuns, classified>>

combVars == <<listing, input_dirs, pages, seen_headings, output_file,
              listingB, input_dirsB, output_fileB>>

splitVars == <<ocr_text, ocr_chunks, splitWrites, splitPc>>

batchVars == <<input_files, args, file_idx, batchPc, runPc, batches, tree,
               ran, skipped, processed, repeated, failed, prev_failed>>

runVars == <<entry, lang, epub_dir, rpc, rphase, rfiles, rtasks, rdocs, rcalls, exported>>

longVars == <<long_text, max_words, long_batches, long_writes>>

nameVars == <<page_i, page_j, name_i, name_j>>

pollyVars == <<audioPc, chunk_idx, job, task_status, submits, polls, downloads, audio_files>>

sliceVars == <<chunk_text_in, target_label, target_text>>

vars == <<stageVars, clsVars, combVars, splitVars, batchVars, runVars, longVars,
          nameVars, pollyVars, sliceVars>>

(***************************************************************************)
(* Bounds of the model.                                                    *)
(***************************************************************************)
NumUnits == 3      \* units in the stage's input directory
MaxWorkers == 2    \* largest max_workers tried
MaxRuns == 2       \* invocations of the stage runner on the same directories
NumPages == 2      \* units in the classifier's input directory
MaxClsRuns == 2    \* invocations of classify_chunks on the same directories
MaxFiles == 3      \* files in the combiner's input directories
MaxPieces == 4     \* pieces an input text of the splitter is made of
MaxBatches == 2    \* run_batch calls on the same root directory
NumRunUnits == 2   \* units the splitter writes in a pipeline run
MaxLongPieces == 6 \* pieces an input text of the sentence packer is made of
MaxWords == 2      \* largest max_words tried

(***************************************************************************)
(* Text: str.strip, str.lower, slicing and substring search.               *)
(***************************************************************************)
UpperCase == <<"A", "B", "C", "D", "E", "F", "G", "H", "I", "J", "K", "L", "M", "N", "O", "P", "Q", "R", "S", "T", "U", "V", "W", "X", "Y", "Z">>
LowerCase == <<"a", "b", "c", "d", "e", "f", "g", "h", "i", "j", "k", "l", "m", "n", "o", "p", "q", "r", "s", "t", "u", "v", "w", "x", "y", "z">>

\* The characters str.strip() removes and the regular expression \s matches.
Whitespace == {" ", "\t", "\n", "\r"}

LowerChar(c) ==
    IF \E i \in 1..Len(UpperCase) : UpperCase[i] = c
    THEN LowerCase[CHOOSE i \in 1..Len(UpperCase) : UpperCase[i] = c]
    ELSE c

\* str.lower()
lower(s) == [i \in 1..Len(s) |-> LowerChar(s[i])]

\* str.strip()
strip(s) ==
    LET keep == {i \in 1..Len(s) : s[i] \notin Whitespace}
    IN  IF keep = {} THEN <<>>
        ELSE LET first == CHOOSE i \in keep : \A j \in keep : i <= j
                 last == CHOOSE i \in keep : \A j \in keep : j <= i
             IN  SubSeq(s, first, last)

\* Mutant: the slice is left out.
Unsliced(s, n) == s

\* s[:n]
Prefix(s, n) == SubSeq(s, 1, IF Len(s) < n THEN Len(s) ELSE n)

\* sub occurs in s at index i
OccursAt(s, sub, i) ==
    /\ i >= 1
    /\ i + Len(sub) - 1 <= Len(s)
    /\ SubSeq(s, i, i + Len(sub) - 1) = sub

\* sub in s
Contains(s, sub) == \E i \in 1..(Len(s) + 1) : OccursAt(s, sub, i)

\* The characters of the model in code point order: the order str and Path compare by.
CodePoints == <<" ", "#", "'", "-", ".", "0", "1", "2", "3", "4", "5", "6", "7", "8", "9", "A", "B", "C", "D", "E", "F", "G", "H", "I", "J", "K", "L", "M", "N", "O", "P", "Q", "R", "S", "T", "U", "V", "W", "X", "Y", "Z", "_", "a", "b", "c", "d", "e", "f", "g", "h", "i", "j", "k", "l", "m", "n", "o", "p", "q", "r", "s", "t", "u", "v", "w", "x", "y", "z">>

Ord(c) == CHOOSE i \in 1..Len(CodePoints) : CodePoints[i] = c

\* a < b for two strings
StrLess(a, b) ==
    \E k \in 1..(Len(b)) :
       /\ k <= Len(a) + 1
       /\ \A i \in 1..(k - 1) : a[i] = b[i]
       /\ (k = Len(a) + 1 \/ Ord(a[k]) < Ord(b[k]))

LineBreaks == {"\n", "\r"}

\* str.splitlines(): no empty last line after a final line break; "\r\n" is one break.
RECURSIVE splitlines(_)
splitlines(s) ==
    IF s = <<>> THEN <<>>
    ELSE LET brk == {i \in 1..Len(s) : s[i] \in LineBreaks}
         IN  IF brk = {} THEN <<s>>
             ELSE LET i == CHOOSE x \in brk : \A y \in brk : x <= y
                      crlf == s[i] = "\r" /\ i < Len(s) /\ s[i + 1] = "\n"
                      next == IF crlf THEN i + 2 ELSE i + 1
                  IN  <<SubSeq(s, 1, i - 1)>> \o splitlines(SubSeq(s, next, Len(s)))

\* sep.join(parts)
RECURSIVE join(_, _)
join(parts, sep) ==
    IF parts = <<>> THEN <<>>
    ELSE IF Len(parts) = 1 THEN parts[1]
    ELSE parts[1] \o sep \o join(Tail(parts), sep)

(***************************************************************************)
(* Stage runner: clean.py, transform.py                                    *)
(***************************************************************************)
NoFile == <<"no file">>

\* sorted(input_dir.glob("*.txt")): unit i stands for the i-th name in sorted order.
chunk_paths == 1..NumUnits

\* What call_gpt returns is not a function of its input (a sampled completion): the text
\* returned by a call made in invocation r is modelled as a value of its own.
call_gpt(r) == <<"completion", r>>

\* The status a task returns after a successful write.
DoneStatus(kind) ==
    CASE kind = "clean" -> "cleaned"
      [] kind = "translate" -> "translated"
      [] kind = "rewrite" -> "rewritten"

Resolved == {"skip", "cleaned", "translated", "rewritten", "error", "exception"}

\* Mutant: a worker thread that has run a transform is not given another task.
WorkersNeverFreed ==
    {u \in chunk_paths : task[u] \in {"calling", "cleaned", "translated", "rewritten", "error"}}

\* The worker threads that are inside a task.
Running == {u \in chunk_paths : task[u] = "calling"}

\* The first task in the executor's FIFO work queue.
IsQueueHead(u) ==
    /\ task[u] = "queued"
    /\ \A v \in chunk_paths : v < u => task[v] # "queued"

\* clean_chunks / translate_chunks / rewrite_for_audio_chunks is entered, again and
\* again the same runner on the same directories. Only clean_chunks has an overwrite
\* parameter.
RunStage(kind, ow, mw) ==
    /\ stagePc \in {"idle", "returned"}
    /\ runNo < MaxRuns
    /\ (runNo > 0 => kind = stageKind)
    /\ (ow => kind = "clean")
    /\ stageKind' = kind
    /\ stagePc' = "running"
    /\ runNo' = runNo + 1
    /\ overwrite' = ow
    /\ max_workers' = mw
    /\ task' = [u \in chunk_paths |-> "unsubmitted"]
    /\ reported' = <<>>
    /\ outAtStart' = outDir
    /\ calls' = {}
    /\ writes' = {}
    /\ raisedNow' = {}
    /\ prevErrors' = IF stagePc = "returned"
                     THEN {u \in chunk_paths : task[u] = "error"}
                     ELSE {}
    /\ prevOverwrite' = overwrite
    /\ UNCHANGED outDir

\* executor.submit(...) for the next path of chunk_paths, in sorted order.
Submit(u) ==
    /\ stagePc = "running"
    /\ task[u] = "unsubmitted"
    /\ \A v \in chunk_paths : v < u => task[v] # "unsubmitted"
    /\ task' = [task EXCEPT ![u] = "queued"]
    /\ UNCHANGED <<stageKind, overwrite, max_workers, outDir, reported, stagePc, runNo,
                   outAtStart, calls, writes, raisedNow, prevErrors, prevOverwrite>>

\* Mutant: the existence test is missing, every task calls the transform.
SkipsNothing(u) == FALSE

\* Mutant: the skip test does not look at overwrite.
SkipsWhateverOverwrite(u) == outDir[u] # NoFile

\* The skip test at the head of clean_chunk / translate_chunk / rewrite_chunk_for_audio.
SkipsExisting(u) == outDir[u] # NoFile /\ ~overwrite

\* A worker takes the task: the existence test, then read_text and the call to call_gpt.
ChunkStart(u) ==
    /\ stagePc = "running"
    /\ IsQueueHead(u)
    /\ Cardinality(Running) < max_workers
    /\ IF SkipsExisting(u)
       THEN /\ task' = [task EXCEPT ![u] = "skip"]
            /\ UNCHANGED calls
       ELSE /\ task' = [task EXCEPT ![u] = "calling"]
            /\ calls' = calls \cup {u}
    /\ UNCHANGED <<stageKind, overwrite, max_workers, outDir, reported, stagePc, runNo,
                   outAtStart, writes, raisedNow, prevErrors, prevOverwrite>>

\* call_gpt returned text o: write_text, then return (name, <done>, None).
ChunkReturn(u) ==
    /\ stagePc = "running"
    /\ task[u] = "calling"
    /\ outDir' = [outDir EXCEPT ![u] = call_gpt(runNo)]
    /\ writes' = writes \cup {u}
    /\ task' = [task EXCEPT ![u] = DoneStatus(stageKind)]
    /\ UNCHANGED <<stageKind, overwrite, max_workers, reported, stagePc, runNo,
                   outAtStart, calls, raisedNow, prevErrors, prevOverwrite>>

\* Mutant: no try/except around the transform, the exception stays in the future.
ChunkRaiseUncaught(u) ==
    /\ stagePc = "running"
    /\ task[u] = "calling"
    /\ raisedNow' = raisedNow \cup {u}
    /\ task' = [task EXCEPT ![u] = "exception"]
    /\ UNCHANGED <<stageKind, overwrite, max_workers, outDir, reported, stagePc, runNo,
                   outAtStart, calls, writes, prevErrors, prevOverwrite>>

\* Mutant: the output file is opened for writing before the transform is called.
ChunkRaiseLeavesFile(u) ==
    /\ stagePc = "running"
    /\ task[u] = "calling"
    /\ raisedNow' = raisedNow \cup {u}
    /\ outDir' = [outDir EXCEPT ![u] = <<>>]
    /\ task' = [task EXCEPT ![u] = "error"]
    /\ UNCHANGED <<stageKind, overwrite, max_workers, reported, stagePc, runNo,
                   outAtStart, calls, writes, prevErrors, prevOverwrite>>

\* call_gpt raised: except Exception -> (name, "error", str(e)).
ChunkRaise(u) ==
    /\ stagePc = "running"
    /\ task[u] = "calling"
    /\ raisedNow' = raisedNow \cup {u}
    /\ task' = [task EXCEPT ![u] = "error"]
    /\ UNCHANGED <<stageKind, overwrite, max_workers, outDir, reported, stagePc, runNo,
                   outAtStart, calls, writes, prevErrors, prevOverwrite>>

Collected == {reported[i][1] : i \in 1..Len(reported)}

\* One iteration of `for future in as_completed(tasks)`: future.result() of a finished
\* task, in completion order; future.result() re-raises what the task raised.
AsCompleted(u) ==
    /\ stagePc = "running"
    /\ \A v \in chunk_paths : task[v] # "unsubmitted"
    /\ task[u] \in Resolved
    /\ u \notin Collected
    /\ IF task[u] = "exception"
       THEN /\ stagePc' = "raised"
            /\ UNCHANGED reported
       ELSE /\ reported' = Append(reported, <<u, task[u]>>)
            /\ UNCHANGED stagePc
    /\ UNCHANGED <<stageKind, overwrite, max_workers, outDir, task, runNo,
                   outAtStart, calls, writes, raisedNow, prevErrors, prevOverwrite>>

\* The loop over as_completed is exhausted and the executor is shut down: return.
StageReturn ==
    /\ stagePc = "running"
    /\ Collected = chunk_paths
    /\ stagePc' = "returned"
    /\ UNCHANGED <<stageKind, overwrite, max_workers, outDir, task, reported, runNo,
                   outAtStart, calls, writes, raisedNow, prevErrors, prevOverwrite>>

StageKinds == {"clean", "translate", "rewrite"}

StageStep ==
    \/ \E kind \in StageKinds, ow \in BOOLEAN, mw \in 1..MaxWorkers : RunStage(kind, ow, mw)
    \/ \E u \in chunk_paths : Submit(u)
    \/ \E u \in chunk_paths : ChunkStart(u)
    \/ \E u \in chunk_paths : ChunkReturn(u)
    \/ \E u \in chunk_paths : ChunkRaise(u)
    \/ \E u \in chunk_paths : AsCompleted(u)
    \/ StageReturn

(***************************************************************************)
(* Classifier router: classify.py                                          *)
(***************************************************************************)
body == <<"b", "o", "d", "y">>
toc == <<"t", "o", "c">>
bibliography == <<"b", "i", "b", "l", "i", "o", "g", "r", "a", "p", "h", "y">>
index == <<"i", "n", "d", "e", "x">>

\* ['body', 'toc', 'bibliography', 'index']
Labels == {body, toc, bibliography, index}

\* text[:2000]
ClassifyLimit == 2000

\* sorted(input_dir.glob("*.txt")): page i stands for the i-th name in sorted order.
files == 1..NumPages

\* The content of the input units (ocr_chunks).
PageText(u) == IF u = 1 THEN <<"C", "o", "n", "t", "e", "n", "t", "s", "\n", "1", " ", "I", "n", "t", "r", "o">> ELSE <<"I", "t", " ", "w", "a", "s", ".">>

Raises == <<"raises">>
\* No classify_chunk has run yet in this invocation.
NoResponse == [unit |-> 0, response |-> <<>>, label |-> <<>>]

\* What call_gpt may answer to the classification prompt (or it raises).
Responses == {
    <<" ", "T", "O", "C", "\n">>,
    <<"B", "o", "d", "y">>,
    <<"i", "n", "d", "e", "x">>,
    <<"B", "i", "b", "l", "i", "o", "g", "r", "a", "p", "h", "y", " ">>,
    <<"c", "h", "a", "p", "t", "e", "r">>,
    <<"'", "t", "o", "c", "'">>,
    <<>>,
    Raises }

\* Mutant: the response is compared as returned, neither trimmed nor lower-cased.
classify_with_gpt_raw(resp) == resp

\* classify_with_gpt: response.strip().lower()
classify_with_gpt(resp) == lower(strip(resp))

\* The label classify_chunk settles on, given what call_gpt did.
LabelFor(resp) ==
    IF resp = Raises THEN body
    ELSE IF classify_with_gpt(resp) \notin Labels THEN body
    ELSE classify_with_gpt(resp)

\* How far from 2000 the lengths of the units of the model lie.
MaxSlack == 10

\* The lengths of the units: short ones, and the lengths around text[:2000].
UnitLengths == (0..MaxSlack) \cup ((ClassifyLimit - MaxSlack)..(ClassifyLimit + MaxSlack))

\* A unit of n characters: "It was." over and over.
UnitOfLength(n) == [i \in 1..n |-> <<"I", "t", " ", "w", "a", "s", ".">>[((i - 1) % 7) + 1]]

\* classify_chunk(chunk_path, output_dir) on a unit of n characters, the label
\* function answering resp: read_text()[:2000], the label, target.write_text(text).
classify_chunk(n, resp) ==
    /\ chunk_text_in = NoFile
    /\ chunk_text_in' = UnitOfLength(n)
    /\ target_label' = LabelFor(resp)
    /\ target_text' = Prefix(UnitOfLength(n), ClassifyLimit)

\* classify_chunks is entered: the label directories are made, the files listed.
ClassifyChunks ==
    /\ clsPc \in {"idle", "returned"}
    /\ clsRuns < MaxClsRuns
    /\ clsPc' = "running"
    /\ clsRuns' = clsRuns + 1
    /\ clsTodo' = files
    /\ classified' = NoResponse
    /\ UNCHANGED clsDir

\* classify_chunk(f, output_dir) for one file, the label function answering resp.
ClassifyChunk(u, resp) ==
    /\ clsPc = "running"
    /\ u \in clsTodo
    /\ LET text == Prefix(PageText(u), ClassifyLimit)
           label == LabelFor(resp)
       IN  /\ clsDir' = [clsDir EXCEPT ![label][u] = text]
           /\ classified' = [unit |-> u, response |-> resp, label |-> label]
    /\ clsTodo' = clsTodo \ {u}
    /\ UNCHANGED <<clsPc, clsRuns>>

\* executor.map is exhausted: classify_chunks returns.
ClassifyReturn ==
    /\ clsPc = "running"
    /\ clsTodo = {}
    /\ clsPc' = "returned"
    /\ UNCHANGED <<clsDir, clsTodo, clsRuns, classified>>

ClassifyStep ==
    \/ ClassifyChunks
    \/ \E u \in files, resp \in Responses : ClassifyChunk(u, resp)
    \/ ClassifyReturn

(***************************************************************************)
(* Combiner: combine.py                                                    *)
(***************************************************************************)
\* Length of the longest prefix of s (from index from) whose characters are all in set.
RunLength(s, from, set) ==
    LET stop == {i \in from..Len(s) : s[i] \notin set}
    IN  IF stop = {} THEN Len(s) - from + 1
        ELSE (CHOOSE i \in stop : \A j \in stop : i <= j) - from

\* Mutant: only a line with a single '#' is taken for a heading.
header_re_match_one(line) ==
    RunLength(line, 1, {"#"}) = 1 /\ RunLength(line, 2, Whitespace) >= 1

\* header_re.match(line) for header_re = ^(#+)\s+(.*)
header_re_match(line) ==
    LET hashes == RunLength(line, 1, {"#"})
    IN  hashes >= 1 /\ RunLength(line, hashes + 1, Whitespace) >= 1

\* m.group(2): what follows the hashes and the whitespace after them.
group2(line) ==
    LET hashes == RunLength(line, 1, {"#"})
        blanks == RunLength(line, hashes + 1, Whitespace)
    IN  SubSeq(line, hashes + blanks + 1, Len(line))

\* Mutant: the title is compared as written, neither trimmed nor lower-cased.
title_raw(line) == group2(line)

\* title = m.group(2).strip().lower()
title(line) == lower(strip(group2(line)))

\* The inner loop of remove_redundant_headers over the lines of one page.
RECURSIVE ScanLines(_, _, _)
ScanLines(lines, combined, seen) ==
    IF lines = <<>> THEN [combined |-> combined, seen |-> seen]
    ELSE LET line == Head(lines)
         IN  IF header_re_match(line)
             THEN IF title(line) \in seen
                  THEN ScanLines(Tail(lines), combined, seen)
                  ELSE ScanLines(Tail(lines), Append(combined, line),
                                 seen \cup {title(line)})
             ELSE ScanLines(Tail(lines), Append(combined, line), seen)

\* The outer loop of remove_redundant_headers: each page's lines, then ''.
RECURSIVE ScanPages(_, _, _)
ScanPages(ps, combined, seen) ==
    IF ps = <<>> THEN [combined |-> combined, seen |-> seen]
    ELSE LET r == ScanLines(splitlines(Head(ps)), combined, seen)
         IN  ScanPages(Tail(ps), Append(r.combined, <<>>), r.seen)

\* remove_redundant_headers(pages): '\n'.join(combined)
remove_redundant_headers(ps) == join(ScanPages(ps, <<>>, {}).combined, <<"\n">>)

\* The literal that marks an empty page.
EMPTY == <<"-", "-", "-", " ", "E", "M", "P", "T", "Y", " ", "-", "-", "-">>

\* Mutant: only a page that is exactly the marker is skipped.
is_empty_page_exact(page_text) == page_text = EMPTY

\* "--- EMPTY ---" in page_text
is_empty_page(page_text) == Contains(page_text, EMPTY)

\* Path(input_dir).glob("*.txt"): the files of one directory, in directory order
\* (the order of creation, which sorted() must not rely on).
glob(ls, d) == SelectSeq(ls, LAMBDA f : f.dir = d)

\* Mutant: the files are taken in glob order.
unsorted(fs) == fs

\* sorted(...): by path, that is by name within one directory.
RECURSIVE sorted(_)
sorted(fs) ==
    IF fs = <<>> THEN <<>>
    ELSE LET least == CHOOSE i \in 1..Len(fs) :
                         \A j \in 1..Len(fs) : ~StrLess(fs[j].name, fs[i].name)
             rest == [k \in 1..(Len(fs) - 1) |-> IF k < least THEN fs[k] ELSE fs[k + 1]]
         IN  <<fs[least]>> \o sorted(rest)

\* The pages list of combine_all: every directory in the given order, its files in
\* sorted order, the pages holding the marker left out.
RECURSIVE read_pages(_, _)
read_pages(dirs, ls) ==
    IF dirs = <<>> THEN <<>>
    ELSE LET fs == sorted(glob(ls, Head(dirs)))
             texts == [i \in 1..Len(fs) |-> fs[i].text]
         IN  SelectSeq(texts, LAMBDA t : ~is_empty_page(t)) \o read_pages(Tail(dirs), ls)

\* The directories of the model, their file names and the page texts tried.
DirNames == {"toc", "body"}
DirOrders == {<<"toc", "body">>, <<"body", "toc">>, <<"body">>}
FileNames == {<<"p", "1", "0">>, <<"p", "2">>}
PageTexts == {
    <<"#", " ", "I", "n", "t", "r", "o", "\n", "a">>,
    <<"#", " ", " ", "i", "n", "t", "r", "o", " ", "\n", "b">>,
    <<"#", "#", " ", "I", "N", "T", "R", "O", "\n", "#", "I", "n", "t", "r", "o", "\n", "\n", "-", "-", "-", " ", "E", "M", "P", "T", "Y", " ", "-", "-">>,
    <<"-", "-", "-", " ", "E", "M", "P", "T", "Y", " ", "-", "-", "-">>,
    <<"#", " ", "I", "n", "t", "r", "o", "\n", "x", "-", "-", "-", " ", "E", "M", "P", "T", "Y", " ", "-", "-", "-", "y">> }
OrderTexts == {
    <<"#", " ", "I", "n", "t", "r", "o", "\n", "a">>,
    <<"#", " ", " ", "i", "n", "t", "r", "o", " ", "\n", "b">> }

Files(ls) == {ls[i] : i \in 1..Len(ls)}
Slots(ls) == {<<ls[i].dir, ls[i].name>> : i \in 1..Len(ls)}

\* The producing stage writes one more unit: a new file in one of the directories.
WriteUnit(d, n, t) ==
    /\ Len(listing) < MaxFiles
    /\ <<d, n>> \notin Slots(listing)
    /\ output_file = NoFile
    /\ listing' = Append(listing, [dir |-> d, name |-> n, text |-> t])
    /\ UNCHANGED <<input_dirs, pages, seen_headings, output_file,
                   listingB, input_dirsB, output_fileB>>

\* combine_all(input_dirs, output_file)
combine_all(dirs) ==
    /\ output_file = NoFile
    /\ LET ps == read_pages(dirs, listing)
       IN  /\ pages' = ps
           /\ seen_headings' = ScanPages(ps, <<>>, {}).seen
           /\ output_file' = remove_redundant_headers(ps)
    /\ input_dirs' = dirs
    /\ UNCHANGED <<listing, listingB, input_dirsB, output_fileB>>

\* The second execution, on a copy of the first one's inputs: the producing stage
\* completes the same units in an order of its own.
WriteUnitB(f) ==
    /\ output_file # NoFile
    /\ f \in Files(listing)
    /\ f \notin Files(listingB)
    /\ output_fileB = NoFile
    /\ listingB' = Append(listingB, f)
    /\ UNCHANGED <<listing, input_dirs, pages, seen_headings, output_file,
                   input_dirsB, output_fileB>>

\* combine_all(input_dirs, output_file) of the second execution, once it has produced
\* every unit, with the first execution's input_dirs
combine_allB(dirs) ==
    /\ output_fileB = NoFile
    /\ Files(listingB) = Files(listing)
    /\ dirs = input_dirs
    /\ output_fileB' = remove_redundant_headers(read_pages(dirs, listingB))
    /\ input_dirsB' = dirs
    /\ UNCHANGED <<listing, input_dirs, pages, seen_headings, output_file, listingB>>

(***************************************************************************)
(* Page splitter: preprocess.py                                            *)
(***************************************************************************)
\* The literal of DEFAULT_PAGE_BREAK_PATTERN = r"\s*--- PAGE BREAK ---\s*"
PAGE_BREAK == <<"-", "-", "-", " ", "P", "A", "G", "E", " ", "B", "R", "E", "A", "K", " ", "-", "-", "-">>

\* Length of the match of the pattern at index p of s under re.IGNORECASE, 0 if there
\* is none: a greedy run of whitespace, the literal in any letter case, a greedy run of
\* whitespace.
page_break_at(s, p) ==
    LET before == RunLength(s, p, Whitespace)
        q == p + before
        last == q + Len(PAGE_BREAK) - 1
    IN  IF last <= Len(s) /\ lower(SubSeq(s, q, last)) = lower(PAGE_BREAK)
        THEN before + Len(PAGE_BREAK) + RunLength(s, last + 1, Whitespace)
        ELSE 0

\* re.split(pattern, text, flags=re.IGNORECASE): cut at the leftmost match, go on after it.
RECURSIVE re_split(_)
re_split(s) ==
    LET found == {p \in 1..Len(s) : page_break_at(s, p) > 0}
    IN  IF found = {} THEN <<s>>
        ELSE LET p == CHOOSE x \in found : \A y \in found : x <= y
             IN  <<SubSeq(s, 1, p - 1)>> \o re_split(SubSeq(s, p + page_break_at(s, p), Len(s)))

Digit == <<"0", "1", "2", "3", "4", "5", "6", "7", "8", "9">>

RECURSIVE Decimal(_)
Decimal(i) == IF i < 10 THEN <<Digit[i + 1]>> ELSE Decimal(i \div 10) \o <<Digit[(i % 10) + 1]>>

\* f"{i:04}": decimal, padded with zeros to four digits at least.
Format04(i) ==
    LET d == Decimal(i)
    IN  [k \in 1..(IF Len(d) < 4 THEN 4 - Len(d) ELSE 0) |-> "0"] \o d

\* f"page_{i:04}.txt" (the model leaves the extension out)
page_name(i) == <<"p", "a", "g", "e", "_">> \o Format04(i)

\* Mutant: the chunk is written as cut, not stripped.
chunk_text_raw(chunk) == chunk

\* chunk.strip()
chunk_text(chunk) == strip(chunk)

\* What the input texts of the model are made of.
Pieces == {
    <<"A", "\n">>,
    <<"\n", "B">>,
    <<" ">>,
    <<"-", "-", "-", " ", "P", "A", "G", "E", " ", "B", "R", "E", "A", "K", " ", "-", "-", "-">>,
    <<"-", "-", "-", " ", "P", "a", "g", "e", " ", "B", "r", "e", "a", "k", " ", "-", "-", "-">>,
    <<" ", "P", "A", "G", "E", " ", "B", "R", "E", "A", "K", " ", "-", "-", "-">> }

RECURSIVE Concat(_)
Concat(q) == IF q = <<>> THEN <<>> ELSE Head(q) \o Concat(Tail(q))

Texts == {Concat(q) : q \in UNION {[1..n -> Pieces] : n \in 0..MaxPieces}}

\* The OCR step has written the text file that split_ocr_text is given.
WriteOcrText ==
    /\ ocr_text = NoFile
    /\ \E t \in Texts : ocr_text' = t
    /\ UNCHANGED <<ocr_chunks, splitWrites, splitPc>>

\* The texts of an input file that is written again between two splits.
MaxEditPieces == 2

ShortTexts == {Concat(q) : q \in UNION {[1..n -> Pieces] : n \in 0..MaxEditPieces}}

\* The input file is written, or written again (a new OCR of the document) after a
\* split, so that split_ocr_text can be called on it with the same output folder.
ReplaceOcrText ==
    /\ (ocr_text = NoFile /\ splitPc = "idle") \/ splitPc = "done"
    /\ \E t \in ShortTexts : ocr_text' = t
    /\ splitPc' = "idle"
    /\ UNCHANGED <<ocr_chunks, splitWrites>>

\* split_ocr_text(input_file, output_folder) with the default pattern
split_ocr_text ==
    /\ ocr_text # NoFile
    /\ splitPc = "idle"
    /\ \E chunks \in {re_split(ocr_text)} :
       \E out \in {[i \in 1..Len(chunks) |-> <<page_name(i), chunk_text(chunks[i])>>]} :
          /\ splitWrites' = out
          /\ ocr_chunks' = [n \in (DOMAIN ocr_chunks) \cup {page_name(i) : i \in 1..Len(out)} |->
                              IF \E i \in 1..Len(out) : out[i][1] = n
                              THEN out[CHOOSE i \in 1..Len(out) : out[i][1] = n][2]
                              ELSE ocr_chunks[n]]
    /\ splitPc' = "done"
    /\ UNCHANGED ocr_text

(***************************************************************************)
(* The names of the page files: the enumerate loop of split_ocr_text,      *)
(* followed by the sorted() of the stage that reads the directory.         *)
(***************************************************************************)
\* The largest ordinal the loop reaches in the model.
MaxPageNo == 10001

\* The ordinals next to which the decimal form of i gets one digit longer.
PageNumbers ==
    {i \in 1..MaxPageNo : \E k \in {10, 100, 1000, 10000} : i >= k - 3 /\ i <= k + 1}

\* Two iterations i < j of "for i, chunk in enumerate(chunks, 1)" of one split_ocr_text
\* call over a text of at least j chunks, with the names of the files they write.
write_pages(i, j) ==
    /\ page_i = 0
    /\ i < j
    /\ page_i' = i
    /\ page_j' = j
    /\ name_i' = page_name(i)
    /\ name_j' = page_name(j)

(***************************************************************************)
(* The batch runner: PipelineRunner.run_batch and PipelineRunner.run.      *)
(* A document is named by the stem of its file; its text holds no page     *)
(* break, so it is the single unit page_0001, and tree records in which    *)
(* directories of the project that unit's file exists.                     *)
(***************************************************************************)
\* str.replace(old, new), old not empty
RECURSIVE replace(_, _, _)
replace(s, old, new) ==
    IF s = <<>> THEN <<>>
    ELSE IF OccursAt(s, old, 1)
         THEN new \o replace(SubSeq(s, Len(old) + 1, Len(s)), old, new)
    ELSE <<Head(s)>> \o replace(Tail(s), old, new)

project_name(stem) == replace(stem, <<"_", "o", "c", "r">>, <<>>)

Stems == {<<"a">>, <<"a", "_", "o", "c", "r">>, <<"b">>}

Projects == {project_name(f) : f \in Stems}

\* sorted(glob.glob(input_folder/*.txt)): the stems of the folder's files in the
\* order of their paths.
RECURSIVE sorted_glob(_)
sorted_glob(folder) ==
    IF folder = {} THEN <<>>
    ELSE LET least == CHOOSE x \in folder :
                         \A y \in folder : ~StrLess(y \o <<".", "t", "x", "t">>, x \o <<".", "t", "x", "t">>)
         IN  <<least>> \o sorted_glob(folder \ {least})

\* The input_files lists of the folders tried.
Listings == {sorted_glob(folder) : folder \in SUBSET Stems}

Flags == {"classify", "clean", "translate", "generate_epub", "generate_audio", "force"}

NoArgs == [f \in Flags |-> FALSE]

\* The steps of runner.run in program order, and the flag each one is under.
RunSteps == <<"split", "classify", "clean", "translate", "epub_combine", "epub_export",
              "rewrite", "narration">>

StepFlag == [split |-> "none", classify |-> "classify", clean |-> "clean",
             translate |-> "translate", epub_combine |-> "generate_epub",
             epub_export |-> "generate_epub", rewrite |-> "generate_audio",
             narration |-> "generate_audio"]

StepOn(k) == StepFlag[RunSteps[k]] = "none" \/ args[StepFlag[RunSteps[k]]]

\* project_name of every stem, computed once.
ProjectOf == [f \in Stems |-> project_name(f)]

project == ProjectOf[input_files[file_idx]]

\* runner.run goes on from step k to the next step whose flag is set; past the last
\* one it returns and the for loop of run_batch takes the next file.
Advance(k) ==
    LET later == {j \in (k + 1)..Len(RunSteps) : StepOn(j)}
    IN  IF later = {}
        THEN runPc' = "idle" /\ file_idx' = file_idx + 1
        ELSE /\ runPc' = RunSteps[CHOOSE j \in later : \A i \in later : j <= i]
             /\ UNCHANGED file_idx

\* A stage runner over the one unit: it calls the transform when the unit is in the
\* input directory and not in the output directory, and writes the output unless the
\* transform raised (ok = FALSE).
StageOver(in, out, ok) ==
    /\ tree' = [tree EXCEPT ![project] =
                   IF in \in @ /\ out \notin @ /\ ok THEN @ \cup {out} ELSE @]
    /\ failed' = IF in \in tree[project] /\ out \notin tree[project] /\ ~ok
                 THEN failed \cup {project} ELSE failed

\* The keyword arguments a call may be given: a later call on the same root directory
\* is given the stage flags of the first one, its force is free.
KeywordArgs ==
    IF batches = 0 THEN [Flags -> BOOLEAN]
    ELSE {[args EXCEPT !["force"] = b] : b \in BOOLEAN}

run_batch ==
    /\ batchPc # "loop"
    /\ batches < MaxBatches
    /\ batches' = batches + 1
    /\ \E listed \in Listings, a \in KeywordArgs :
          /\ input_files' = listed
          /\ args' = a
          /\ repeated' = (batches > 0 /\ batchPc = "done" /\ listed = input_files
                           /\ a = args /\ ~a.force)
    /\ file_idx' = 1
    /\ batchPc' = "loop"
    /\ ran' = {}
    /\ skipped' = {}
    /\ processed' = {}
    /\ failed' = {}
    /\ prev_failed' = failed
    /\ UNCHANGED <<runPc, tree>>

\* The directory epub/<lang> of a project is made outside the runner.
MakeEpubDir(p) ==
    /\ batchPc # "loop"
    /\ batches < MaxBatches
    /\ "epub" \notin tree[p]
    /\ tree' = [tree EXCEPT ![p] = @ \cup {"epub"}]
    /\ UNCHANGED <<input_files, args, repeated, failed, prev_failed, file_idx, batchPc, runPc, batches, ran, skipped,
                   processed>>

AtFile == batchPc = "loop" /\ runPc = "idle" /\ file_idx <= Len(input_files)

SkipFile ==
    /\ AtFile
    /\ "narration" \in tree[project] /\ ~args.force
    /\ skipped' = skipped \cup {file_idx}
    /\ processed' = processed \cup {file_idx}
    /\ file_idx' = file_idx + 1
    /\ UNCHANGED <<input_files, args, repeated, failed, prev_failed, batchPc, runPc, batches, tree, ran>>

StartRun ==
    /\ AtFile
    /\ ~("narration" \in tree[project] /\ ~args.force)
    /\ ran' = ran \cup {file_idx}
    /\ processed' = IF "narration" \in tree[project]
                    THEN processed \cup {file_idx} ELSE processed
    /\ runPc' = "split"
    /\ UNCHANGED <<input_files, args, repeated, failed, prev_failed, file_idx, batchPc, batches, tree, skipped>>

BatchReturn ==
    /\ batchPc = "loop" /\ runPc = "idle" /\ file_idx > Len(input_files)
    /\ batchPc' = "done"
    /\ UNCHANGED <<input_files, args, repeated, failed, prev_failed, file_idx, runPc, batches, tree, ran, skipped,
                   processed>>

RunSplit ==
    /\ runPc = "split"
    /\ tree' = [tree EXCEPT ![project] = @ \cup {"ocr_chunks"}]
    /\ Advance(1)
    /\ UNCHANGED <<input_files, args, repeated, failed, prev_failed, batchPc, batches, ran, skipped, processed>>

RunClassify(label) ==
    /\ runPc = "classify"
    /\ tree' = [tree EXCEPT ![project] = @ \cup {"classified_chunks/" \o label}]
    /\ Advance(2)
    /\ UNCHANGED <<input_files, args, repeated, failed, prev_failed, batchPc, batches, ran, skipped, processed>>

RunClean(ok) ==
    /\ runPc = "clean"
    /\ StageOver("classified_chunks/body", "cleaned_chunks/body", ok)
    /\ Advance(3)
    /\ UNCHANGED <<input_files, args, repeated, prev_failed, batchPc, batches, ran, skipped, processed>>

RunTranslate(ok) ==
    /\ runPc = "translate"
    /\ StageOver("cleaned_chunks/body", "translated_chunks", ok)
    /\ Advance(4)
    /\ UNCHANGED <<input_files, args, repeated, prev_failed, batchPc, batches, ran, skipped, processed>>

\* combine_all opens epub/<lang>/<name>.md for writing: FileNotFoundError when the
\* directory is missing, which nothing in run or run_batch catches.
RunEpubCombine ==
    /\ runPc = "epub_combine"
    /\ IF "epub" \in tree[project]
       THEN /\ tree' = [tree EXCEPT ![project] = @ \cup {"epub/md"}]
            /\ Advance(5)
            /\ UNCHANGED batchPc
       ELSE /\ batchPc' = "raised"
            /\ runPc' = "idle"
            /\ UNCHANGED <<tree, file_idx>>
    /\ UNCHANGED <<input_files, args, repeated, failed, prev_failed, batches, ran, skipped, processed>>

\* generate_epub: pandoc writes the book, is missing, or exits non-zero; the last two
\* are caught and printed.
RunEpubExport(outcome) ==
    /\ runPc = "epub_export"
    /\ tree' = [tree EXCEPT ![project] =
                   IF outcome = "created" THEN @ \cup {"epub/epub"} ELSE @]
    /\ Advance(6)
    /\ UNCHANGED <<input_files, args, repeated, failed, prev_failed, batchPc, batches, ran, skipped, processed>>

RunRewrite(ok) ==
    /\ runPc = "rewrite"
    /\ StageOver("translated_chunks", "audiobook_chunks", ok)
    /\ Advance(7)
    /\ UNCHANGED <<input_files, args, repeated, prev_failed, batchPc, batches, ran, skipped, processed>>

\* Mutant: the narration step writes no file.
RunNarrationWritesNothing ==
    /\ runPc = "narration"
    /\ Advance(8)
    /\ UNCHANGED <<input_files, args, repeated, failed, prev_failed, batchPc, batches, ran, skipped, processed, tree>>

RunNarration ==
    /\ runPc = "narration"
    /\ tree' = [tree EXCEPT ![project] = @ \cup {"narration"}]
    /\ Advance(8)
    /\ UNCHANGED <<input_files, args, repeated, failed, prev_failed, batchPc, batches, ran, skipped, processed>>

(***************************************************************************)
(* One pipeline run with its unit tasks: PipelineRunner.run with its       *)
(* default flags (every stage on), and Project.run.  A step is a call of   *)
(* run: an executor stage (classify_chunks, clean_chunks, translate_chunks,*)
(* rewrite_for_audio_chunks), a combine_all or a generate_epub.            *)
(***************************************************************************)
RunUnits == 1..NumRunUnits

RunLabels == {"body", "toc", "bibliography", "index"}

\* runner._language_name: the table, and the code itself for a code not in it.
LanguageNames == [en |-> "English", es |-> "Spanish", ca |-> "Catalan", fr |-> "French",
                  de |-> "German", pt |-> "Portuguese", la |-> "Latin"]

_language_name(code) == IF code \in DOMAIN LanguageNames THEN LanguageNames[code] ELSE code

Langs == {"en", "xx"}

Step(op, in, out) == [op |-> op, in |-> in, out |-> out]

RunnerSteps == <<
    Step("split", <<>>, "ocr_chunks"),
    Step("classify", <<"ocr_chunks">>, "classified_chunks"),
    Step("clean", <<"classified_chunks/body">>, "cleaned_chunks/body"),
    Step("translate", <<"cleaned_chunks/body">>, "translated_chunks"),
    Step("combine", <<"translated_chunks">>, "epub/book.md"),
    Step("export", <<>>, "epub/book.epub"),
    Step("rewrite", <<"translated_chunks">>, "audiobook_chunks"),
    Step("combine", <<"audiobook_chunks">>, "narration.md")>>

ProjectSteps == <<
    Step("split", <<>>, "ocr_chunks"),
    Step("classify", <<"ocr_chunks">>, "classified_chunks"),
    Step("clean", <<"classified_chunks/body">>, "cleaned_chunks/body"),
    Step("clean", <<"classified_chunks/bibliography">>, "cleaned_chunks/bibliography"),
    Step("clean", <<"classified_chunks/index">>, "cleaned_chunks/index"),
    Step("combine", <<"cleaned_chunks/toc", "cleaned_chunks/body",
                      "cleaned_chunks/bibliography", "cleaned_chunks/index">>,
         "combined.md"),
    Step("export", <<>>, "book.epub")>>

Steps == IF entry = "project" THEN ProjectSteps ELSE RunnerSteps

ExecutorOps == {"classify", "clean", "translate", "rewrite"}

UnitsIn(dir) == {u \in RunUnits : <<dir, u>> \in rfiles}

\* sorted(Path(dir).glob("*.txt")) as <<directory, unit>>
RECURSIVE SortedUnits(_, _)
SortedUnits(dir, us) ==
    IF us = {} THEN <<>>
    ELSE LET least == CHOOSE u \in us : \A v \in us : u <= v
         IN  <<<<dir, least>>>> \o SortedUnits(dir, us \ {least})

RECURSIVE PagesOf(_)
PagesOf(dirs) ==
    IF dirs = <<>> THEN <<>>
    ELSE SortedUnits(Head(dirs), UnitsIn(Head(dirs))) \o PagesOf(Tail(dirs))

Unresolved == {"queued", "calling"}

AtStep(op) == rphase = "ready" /\ rpc \in 1..Len(Steps) /\ Steps[rpc].op = op

StartRunner(code, dir) ==
    /\ entry = "none"
    /\ entry' = "runner"
    /\ lang' = code
    /\ epub_dir' = dir
    /\ rpc' = 1
    /\ UNCHANGED <<rphase, rfiles, rtasks, rdocs, rcalls, exported>>

StartProject ==
    /\ entry = "none"
    /\ entry' = "project"
    /\ rpc' = 1
    /\ UNCHANGED <<lang, epub_dir, rphase, rfiles, rtasks, rdocs, rcalls, exported>>

\* split_ocr_text writes every unit of the text.
StepSplit ==
    /\ AtStep("split")
    /\ rfiles' = rfiles \cup {<<Steps[rpc].out, u>> : u \in RunUnits}
    /\ rpc' = rpc + 1
    /\ UNCHANGED <<entry, lang, epub_dir, rphase, rtasks, rdocs, rcalls, exported>>

\* Entering the with block: one task is submitted for every file of the input directory.
OpenExecutor ==
    /\ rphase = "ready" /\ rpc \in 1..Len(Steps) /\ Steps[rpc].op \in ExecutorOps
    /\ rtasks' = rtasks \cup {[step |-> rpc, unit |-> u, state |-> "queued",
                                wrote |-> <<>>] : u \in UnitsIn(Steps[rpc].in[1])}
    /\ rphase' = "tasks"
    /\ UNCHANGED <<entry, lang, epub_dir, rpc, rfiles, rdocs, rcalls, exported>>

\* Mutant: every task of a step is given the same output path.
target_shared(t, label) == <<Steps[t.step].out, 1>>

\* The path a task writes: output_dir / chunk_path.name, and for classify_chunk
\* output_dir / label / chunk_path.name.
target(t, label) ==
    <<IF Steps[t.step].op = "classify" THEN Steps[t.step].out \o "/" \o label
      ELSE Steps[t.step].out, t.unit>>

SetState(t, st) == rtasks' = (rtasks \ {t}) \cup {[t EXCEPT !.state = st]}

\* A worker takes the task: a stage task whose output exists returns "skip"; otherwise
\* the language model is called (translate_chunk with the target language's name).
TaskStart(t) ==
    /\ t.state = "queued"
    /\ LET st == Steps[t.step]
       IN  IF st.op # "classify" /\ target(t, "") \in rfiles
           THEN SetState(t, "skip") /\ UNCHANGED rcalls
           ELSE /\ SetState(t, "calling")
                /\ rcalls' = rcalls \cup
                      {<<st.op, t.unit,
                         IF st.op = "translate" THEN _language_name(lang) ELSE "">>}
    /\ UNCHANGED <<entry, lang, epub_dir, rpc, rphase, rfiles, rdocs, exported>>

\* The call returned and the task wrote its output; classify_chunk writes under the
\* label it settled on (body when the call raised).
TaskReturn(t, label) ==
    /\ t.state = "calling"
    /\ rfiles' = rfiles \cup {target(t, label)}
    /\ rtasks' = (rtasks \ {t}) \cup
                     {[t EXCEPT !.state = "done", !.wrote = target(t, label)]}
    /\ UNCHANGED <<entry, lang, epub_dir, rpc, rphase, rdocs, rcalls, exported>>

\* The call of a stage task raised: caught in the task, which returns "error".
TaskRaise(t) ==
    /\ t.state = "calling"
    /\ Steps[t.step].op # "classify"
    /\ SetState(t, "error")
    /\ UNCHANGED <<entry, lang, epub_dir, rpc, rphase, rfiles, rdocs, rcalls, exported>>

\* Mutant: the with block is left without waiting for the tasks.
CloseExecutorNoWait ==
    /\ rphase = "tasks"
    /\ rphase' = "ready"
    /\ rpc' = rpc + 1
    /\ UNCHANGED <<entry, lang, epub_dir, rfiles, rtasks, rdocs, rcalls, exported>>

\* Leaving the with block: every result was taken (as_completed, executor.map) and
\* the executor has shut down, which waits for every task.
CloseExecutor ==
    /\ rphase = "tasks"
    /\ \A t \in rtasks : t.state \notin Unresolved
    /\ rphase' = "ready"
    /\ rpc' = rpc + 1
    /\ UNCHANGED <<entry, lang, epub_dir, rfiles, rtasks, rdocs, rcalls, exported>>

\* combine_all: the runner's epub/<lang> is made by nobody, and opening the output file
\* in a missing directory raises out of run.
StepCombine ==
    /\ AtStep("combine")
    /\ IF entry = "runner" /\ Steps[rpc].out = "epub/book.md" /\ ~epub_dir
       THEN rphase' = "raised" /\ UNCHANGED <<rpc, rdocs>>
       ELSE /\ rdocs' = [f \in DOMAIN rdocs \cup {Steps[rpc].out} |->
                           IF f = Steps[rpc].out THEN PagesOf(Steps[rpc].in)
                           ELSE rdocs[f]]
            /\ rpc' = rpc + 1
            /\ UNCHANGED rphase
    /\ UNCHANGED <<entry, lang, epub_dir, rfiles, rtasks, rcalls, exported>>

\* Mutant: a failure of the converter is not caught.
StepExportUncaught(outcome) ==
    /\ AtStep("export")
    /\ exported' = outcome
    /\ IF outcome = "created" THEN rpc' = rpc + 1 /\ UNCHANGED rphase
       ELSE rphase' = "raised" /\ UNCHANGED rpc
    /\ UNCHANGED <<entry, lang, epub_dir, rfiles, rtasks, rdocs, rcalls>>

\* generate_epub: the converter writes the book, is missing, or exits non-zero; the
\* last two are caught and printed.
StepExport(outcome) ==
    /\ AtStep("export")
    /\ exported' = outcome
    /\ rpc' = rpc + 1
    /\ UNCHANGED <<entry, lang, epub_dir, rphase, rfiles, rtasks, rdocs, rcalls>>

(***************************************************************************)
(* Sentence packer: splitter.py                                            *)
(***************************************************************************)
SentenceEnders == {".", "!", "?"}

\* The characters of the lookahead class [A-Z...] of sentence_end, as far as the texts
\* of the model have them.
SentenceStarters == {UpperCase[i] : i \in 1..Len(UpperCase)} \cup {"\""}

\* Length of the match of sentence_end at index i of s, 0 when there is none:
\* white space after one of . ! ? and before a capital letter or a quotation mark.
sentence_end_at(s, i) ==
    IF i > 1 /\ i <= Len(s) /\ s[i - 1] \in SentenceEnders /\ s[i] \in Whitespace
    THEN LET n == RunLength(s, i, Whitespace)
         IN  IF i + n <= Len(s) /\ s[i + n] \in SentenceStarters THEN n ELSE 0
    ELSE 0

\* sentence_end.split(text): read from index i on, the current piece starting at start.
RECURSIVE SplitSentences(_, _, _)
SplitSentences(s, i, start) ==
    IF i > Len(s) THEN <<SubSeq(s, start, Len(s))>>
    ELSE IF sentence_end_at(s, i) > 0
         THEN <<SubSeq(s, start, i - 1)>>
              \o SplitSentences(s, i + sentence_end_at(s, i), i + sentence_end_at(s, i))
    ELSE SplitSentences(s, i + 1, start)

\* len(sentence.split())
word_count(s) ==
    Cardinality({i \in 1..Len(s) : s[i] \notin Whitespace /\ (i = 1 \/ s[i - 1] \in Whitespace)})

\* Mutant: a batch is written as its first sentence alone.
first_sentence(current_batch) == strip(current_batch[1])

\* " ".join(current_batch).strip()
batch_text(current_batch) == strip(join(current_batch, <<" ">>))

\* The loop over the sentences from the k-th on, and the final append.
RECURSIVE Pack(_, _, _, _, _, _)
Pack(sentences, k, batch_list, current_batch, current_count, limit) ==
    IF k > Len(sentences)
    THEN IF current_batch # <<>> THEN Append(batch_list, batch_text(current_batch)) ELSE batch_list
    ELSE LET count == word_count(sentences[k])
         IN  IF current_count + count > limit /\ current_batch # <<>>
             THEN Pack(sentences, k + 1, Append(batch_list, batch_text(current_batch)),
                       <<sentences[k]>>, count, limit)
             ELSE Pack(sentences, k + 1, batch_list, Append(current_batch, sentences[k]),
                       current_count + count, limit)

\* f"{i:02}"
Format02(i) == IF i < 10 THEN <<"0">> \o Decimal(i) ELSE Decimal(i)

\* chunk_path.stem + f"_part{i:02}.txt" (the model leaves the extension out)
part_name(stem, i) == stem \o <<"_", "p", "a", "r", "t">> \o Format02(i)

\* Mutant: the batches are always written as parts.
never_single(batch_list) == FALSE

\* len(batches) == 1
single_batch(batch_list) == Len(batch_list) = 1

LongPieces == {<<"a">>, <<"B">>, <<".">>, <<" ">>}

LongTexts == {Concat(q) : q \in UNION {[1..n -> LongPieces] : n \in 0..MaxLongPieces}}

\* The body of the loop of split_long_chunks for the unit page_0001.
split_long_chunks(text, limit) ==
    /\ long_text = NoFile
    /\ long_text' = text
    /\ max_words' = limit
    /\ \E batch_list \in {Pack(SplitSentences(strip(text), 1, 1), 1, <<>>, <<>>, 0, limit)} :
          /\ long_batches' = batch_list
          /\ long_writes' =
                IF single_batch(batch_list)
                THEN <<<<page_name(1), batch_list[1]>>>>
                ELSE [i \in 1..Len(batch_list) |-> <<part_name(page_name(1), i), batch_list[i]>>]

(***************************************************************************)
(* Narration audio: audio.py.  generate_audio_from_chunks calls            *)
(* synthesize_speech_aws_polly for each chunk file in sorted order; the    *)
(* synthesis task runs at the service, which moves it from "scheduled"     *)
(* to "inProgress" and then to "completed" or "failed".                    *)
(***************************************************************************)
NumAudioChunks == 2
MaxPolls == 3

\* The values of status["SynthesisTask"]["TaskStatus"]
TaskStatuses == {"scheduled", "inProgress", "completed", "failed"}

\* if task_status in ["completed", "failed"]
PollEnds == {"completed", "failed"}

\* generate_audio_from_chunks(input_dir, output_dir, s3_bucket): up to the for loop
generate_audio_from_chunks ==
    /\ audioPc = "idle"
    /\ audioPc' = "loop"
    /\ chunk_idx' = 1
    /\ UNCHANGED <<job, task_status, submits, polls, downloads, audio_files>>

\* The loop calls synthesize_speech_aws_polly(text, audio_file, ...) for the next chunk.
synthesize_speech_aws_polly ==
    /\ audioPc = "loop"
    /\ chunk_idx <= NumAudioChunks
    /\ audioPc' = "called"
    /\ job' = "none"
    /\ task_status' = "none"
    /\ submits' = 0
    /\ polls' = <<>>
    /\ downloads' = 0
    /\ UNCHANGED <<chunk_idx, audio_files>>

\* response = polly.start_speech_synthesis_task(...); task_id = ...
start_speech_synthesis_task ==
    /\ audioPc = "called"
    /\ audioPc' = "polling"
    /\ job' = "scheduled"
    /\ submits' = submits + 1
    /\ UNCHANGED <<chunk_idx, task_status, polls, downloads, audio_files>>

\* The service works on the task.
TaskProgress(status) ==
    /\ \/ job = "scheduled" /\ status \in {"inProgress", "failed"}
       \/ job = "inProgress" /\ status \in {"completed", "failed"}
    /\ job' = status
    /\ UNCHANGED <<audioPc, chunk_idx, task_status, submits, polls, downloads, audio_files>>

\* Mutant: the loop gives up after its first poll.
get_speech_synthesis_task_once ==
    /\ audioPc = "polling"
    /\ Len(polls) < MaxPolls
    /\ task_status' = job
    /\ polls' = Append(polls, job)
    /\ audioPc' = "polled"
    /\ UNCHANGED <<chunk_idx, job, submits, downloads, audio_files>>

\* One turn of "while True": read the status, break on "completed" or "failed",
\* time.sleep(5) otherwise.
get_speech_synthesis_task ==
    /\ audioPc = "polling"
    /\ Len(polls) < MaxPolls
    /\ task_status' = job
    /\ polls' = Append(polls, job)
    /\ audioPc' = IF job \in PollEnds THEN "polled" ELSE "polling"
    /\ UNCHANGED <<chunk_idx, job, submits, downloads, audio_files>>

\* if task_status == "completed": s3.download_file(...), which writes output_path and
\* returns to the loop, or raises (no such key, no access).
download_file(ok) ==
    /\ audioPc = "polled"
    /\ task_status = "completed"
    /\ downloads' = downloads + 1
    /\ IF ok
       THEN /\ audio_files' = audio_files \cup {chunk_idx}
            /\ chunk_idx' = chunk_idx + 1
            /\ audioPc' = "loop"
       ELSE /\ audioPc' = "raised"
            /\ UNCHANGED <<chunk_idx, audio_files>>
    /\ UNCHANGED <<job, task_status, submits, polls>>

\* else: raise RuntimeError(...), which generate_audio_from_chunks does not catch.
RaisePollyFailed ==
    /\ audioPc = "polled"
    /\ task_status # "completed"
    /\ audioPc' = "raised"
    /\ UNCHANGED <<chunk_idx, job, task_status, submits, polls, downloads, audio_files>>

\* The for loop is over: generate_audio_from_chunks returns.
AudioReturn ==
    /\ audioPc = "loop"
    /\ chunk_idx > NumAudioChunks
    /\ audioPc' = "returned"
    /\ UNCHANGED <<chunk_idx, job, task_status, submits, polls, downloads, audio_files>>

(***************************************************************************)
(* Specifications: one per subsystem, the other subsystems at rest.        *)
(***************************************************************************)
\* Nothing has run yet: the output directories are empty.
Init ==
    \* stage runner
    /\ stageKind = "clean"
    /\ overwrite = FALSE
    /\ max_workers = 1
    /\ outDir = [u \in chunk_paths |-> NoFile]
    /\ task = [u \in chunk_paths |-> "unsubmitted"]
    /\ reported = <<>>
    /\ stagePc = "idle"
    /\ runNo = 0
    /\ outAtStart = [u \in chunk_paths |-> NoFile]
    /\ calls = {}
    /\ writes = {}
    /\ raisedNow = {}
    /\ prevErrors = {}
    /\ prevOverwrite = FALSE
    \* classifier router
    /\ clsDir = [l \in Labels |-> [u \in files |-> NoFile]]
    /\ clsPc = "idle"
    /\ clsTodo = {}
    /\ clsRuns = 0
    /\ classified = NoResponse
    \* combiner
    /\ listing = <<>>
    /\ input_dirs = <<>>
    /\ pages = <<>>
    /\ seen_headings = {}
    /\ output_file = NoFile
    /\ listingB = <<>>
    /\ input_dirsB = <<>>
    /\ output_fileB = NoFile
    \* page splitter
    /\ ocr_text = NoFile
    /\ ocr_chunks = <<>>
    /\ splitWrites = <<>>
    /\ splitPc = "idle"
    \* batch runner
    /\ input_files = <<>>
    /\ args = NoArgs
    /\ file_idx = 1
    /\ batchPc = "idle"
    /\ runPc = "idle"
    /\ batches = 0
    /\ tree = [p \in Projects |-> {}]
    /\ ran = {}
    /\ skipped = {}
    /\ processed = {}
    /\ repeated = FALSE
    /\ failed = {}
    /\ prev_failed = {}
    \* pipeline run
    /\ entry = "none"
    /\ lang = "en"
    /\ epub_dir = FALSE
    /\ rpc = 0
    /\ rphase = "ready"
    /\ rfiles = {}
    /\ rtasks = {}
    /\ rdocs = <<>>
    /\ rcalls = {}
    /\ exported = "none"
    \* sentence packer
    /\ long_text = NoFile
    /\ max_words = 1
    /\ long_batches = <<>>
    /\ long_writes = <<>>
    \* page file names
    /\ page_i = 0
    /\ page_j = 0
    /\ name_i = <<>>
    /\ name_j = <<>>
    \* narration audio
    /\ audioPc = "idle"
    /\ chunk_idx = 1
    /\ job = "none"
    /\ task_status = "none"
    /\ submits = 0
    /\ polls = <<>>
    /\ downloads = 0
    /\ audio_files = {}
    \* one classify_chunk call
    /\ chunk_text_in = NoFile
    /\ target_label = <<>>
    /\ target_text = NoFile

StageNext ==
    \/ \E kind \in StageKinds, ow \in BOOLEAN, mw \in 1..MaxWorkers :
          RunStage(kind, ow, mw) /\ UNCHANGED <<clsVars, combVars, splitVars, batchVars, runVars, longVars, nameVars, pollyVars, sliceVars>>
    \/ \E u \in chunk_paths : Submit(u) /\ UNCHANGED <<clsVars, combVars, splitVars, batchVars, runVars, longVars, nameVars, pollyVars, sliceVars>>
    \/ \E u \in chunk_paths : ChunkStart(u) /\ UNCHANGED <<clsVars, combVars, splitVars, batchVars, runVars, longVars, nameVars, pollyVars, sliceVars>>
    \/ \E u \in chunk_paths : ChunkReturn(u) /\ UNCHANGED <<clsVars, combVars, splitVars, batchVars, runVars, longVars, nameVars, pollyVars, sliceVars>>
    \/ \E u \in chunk_paths : ChunkRaise(u) /\ UNCHANGED <<clsVars, combVars, splitVars, batchVars, runVars, longVars, nameVars, pollyVars, sliceVars>>
    \/ \E u \in chunk_paths : AsCompleted(u) /\ UNCHANGED <<clsVars, combVars, splitVars, batchVars, runVars, longVars, nameVars, pollyVars, sliceVars>>
    \/ StageReturn /\ UNCHANGED <<clsVars, combVars, splitVars, batchVars, runVars, longVars, nameVars, pollyVars, sliceVars>>

SpecStage == Init /\ [][StageNext]_vars

\* The stage runner with the scheduling the executor gives: the submit loop and the
\* as_completed loop of the main thread go on, an idle worker takes the next queued
\* task, and every call of the transform returns or raises.
SpecStageFair ==
    /\ Init
    /\ [][StageNext]_vars
    /\ WF_stageVars(\E u \in chunk_paths : Submit(u))
    /\ WF_stageVars(\E u \in chunk_paths : ChunkStart(u))
    /\ WF_stageVars(\E u \in chunk_paths : ChunkReturn(u) \/ ChunkRaise(u))
    /\ WF_stageVars(\E u \in chunk_paths : AsCompleted(u))
    /\ WF_stageVars(StageReturn)

ClassifyNext ==
    \/ ClassifyChunks /\ UNCHANGED <<stageVars, combVars, splitVars, batchVars, runVars, longVars, nameVars, pollyVars, sliceVars>>
    \/ \E u \in files, resp \in Responses :
          ClassifyChunk(u, resp) /\ UNCHANGED <<stageVars, combVars, splitVars, batchVars, runVars, longVars, nameVars, pollyVars, sliceVars>>
    \/ ClassifyReturn /\ UNCHANGED <<stageVars, combVars, splitVars, batchVars, runVars, longVars, nameVars, pollyVars, sliceVars>>

SpecClassify == Init /\ [][ClassifyNext]_vars

SliceNext ==
    \E n \in UnitLengths, resp \in Responses :
       classify_chunk(n, resp)
       /\ UNCHANGED <<stageVars, clsVars, combVars, splitVars, batchVars, runVars, longVars, nameVars, pollyVars>>

SpecSlice == Init /\ [][SliceNext]_vars

CombineNext ==
    \/ \E d \in DirNames, n \in FileNames, t \in PageTexts :
          WriteUnit(d, n, t) /\ UNCHANGED <<stageVars, clsVars, splitVars, batchVars, runVars, longVars, nameVars, pollyVars, sliceVars>>
    \/ \E dirs \in DirOrders : combine_all(dirs) /\ UNCHANGED <<stageVars, clsVars, splitVars, batchVars, runVars, longVars, nameVars, pollyVars, sliceVars>>

SpecCombine == Init /\ [][CombineNext]_vars

CombineOrderNext ==
    \/ \E d \in DirNames, n \in FileNames, t \in OrderTexts :
          WriteUnit(d, n, t) /\ UNCHANGED <<stageVars, clsVars, splitVars, batchVars, runVars, longVars, nameVars, pollyVars, sliceVars>>
    \/ \E f \in Files(listing) : WriteUnitB(f) /\ UNCHANGED <<stageVars, clsVars, splitVars, batchVars, runVars, longVars, nameVars, pollyVars, sliceVars>>
    \/ \E dirs \in DirOrders : combine_all(dirs) /\ UNCHANGED <<stageVars, clsVars, splitVars, batchVars, runVars, longVars, nameVars, pollyVars, sliceVars>>
    \/ \E dirs \in DirOrders : combine_allB(dirs) /\ UNCHANGED <<stageVars, clsVars, splitVars, batchVars, runVars, longVars, nameVars, pollyVars, sliceVars>>

SpecCombineOrder == Init /\ [][CombineOrderNext]_vars

SplitNext ==
    \/ WriteOcrText /\ UNCHANGED <<stageVars, clsVars, combVars, batchVars, runVars, longVars, nameVars, pollyVars, sliceVars>>
    \/ split_ocr_text /\ UNCHANGED <<stageVars, clsVars, combVars, batchVars, runVars, longVars, nameVars, pollyVars, sliceVars>>

SpecSplit == Init /\ [][SplitNext]_vars

ResplitNext ==
    \/ ReplaceOcrText /\ UNCHANGED <<stageVars, clsVars, combVars, batchVars, runVars, longVars, nameVars, pollyVars, sliceVars>>
    \/ split_ocr_text /\ UNCHANGED <<stageVars, clsVars, combVars, batchVars, runVars, longVars, nameVars, pollyVars, sliceVars>>

SpecResplit == Init /\ [][ResplitNext]_vars

BatchNext ==
    \/ run_batch /\ UNCHANGED <<stageVars, clsVars, combVars, splitVars, runVars, longVars, nameVars, pollyVars, sliceVars>>
    \/ \E p \in Projects : MakeEpubDir(p) /\ UNCHANGED <<stageVars, clsVars, combVars, splitVars, runVars, longVars, nameVars, pollyVars, sliceVars>>
    \/ SkipFile /\ UNCHANGED <<stageVars, clsVars, combVars, splitVars, runVars, longVars, nameVars, pollyVars, sliceVars>>
    \/ StartRun /\ UNCHANGED <<stageVars, clsVars, combVars, splitVars, runVars, longVars, nameVars, pollyVars, sliceVars>>
    \/ BatchReturn /\ UNCHANGED <<stageVars, clsVars, combVars, splitVars, runVars, longVars, nameVars, pollyVars, sliceVars>>
    \/ RunSplit /\ UNCHANGED <<stageVars, clsVars, combVars, splitVars, runVars, longVars, nameVars, pollyVars, sliceVars>>
    \/ \E label \in {"body", "toc"} :
          RunClassify(label) /\ UNCHANGED <<stageVars, clsVars, combVars, splitVars, runVars, longVars, nameVars, pollyVars, sliceVars>>
    \/ \E ok \in BOOLEAN : RunClean(ok) /\ UNCHANGED <<stageVars, clsVars, combVars, splitVars, runVars, longVars, nameVars, pollyVars, sliceVars>>
    \/ \E ok \in BOOLEAN : RunTranslate(ok) /\ UNCHANGED <<stageVars, clsVars, combVars, splitVars, runVars, longVars, nameVars, pollyVars, sliceVars>>
    \/ RunEpubCombine /\ UNCHANGED <<stageVars, clsVars, combVars, splitVars, runVars, longVars, nameVars, pollyVars, sliceVars>>
    \/ \E outcome \in {"created", "not found", "non-zero exit"} :
          RunEpubExport(outcome) /\ UNCHANGED <<stageVars, clsVars, combVars, splitVars, runVars, longVars, nameVars, pollyVars, sliceVars>>
    \/ \E ok \in BOOLEAN : RunRewrite(ok) /\ UNCHANGED <<stageVars, clsVars, combVars, splitVars, runVars, longVars, nameVars, pollyVars, sliceVars>>
    \/ RunNarration /\ UNCHANGED <<stageVars, clsVars, combVars, splitVars, runVars, longVars, nameVars, pollyVars, sliceVars>>

SpecBatch == Init /\ [][BatchNext]_vars

RunNext ==
    \/ \E code \in Langs, dir \in BOOLEAN :
          StartRunner(code, dir) /\ UNCHANGED <<stageVars, clsVars, combVars, splitVars, batchVars, longVars, nameVars, pollyVars, sliceVars>>
    \/ StartProject /\ UNCHANGED <<stageVars, clsVars, combVars, splitVars, batchVars, longVars, nameVars, pollyVars, sliceVars>>
    \/ StepSplit /\ UNCHANGED <<stageVars, clsVars, combVars, splitVars, batchVars, longVars, nameVars, pollyVars, sliceVars>>
    \/ OpenExecutor /\ UNCHANGED <<stageVars, clsVars, combVars, splitVars, batchVars, longVars, nameVars, pollyVars, sliceVars>>
    \/ \E t \in rtasks : TaskStart(t) /\ UNCHANGED <<stageVars, clsVars, combVars, splitVars, batchVars, longVars, nameVars, pollyVars, sliceVars>>
    \/ \E t \in rtasks : \E label \in (IF Steps[t.step].op = "classify" THEN RunLabels ELSE {"body"}) :
          TaskReturn(t, label) /\ UNCHANGED <<stageVars, clsVars, combVars, splitVars, batchVars, longVars, nameVars, pollyVars, sliceVars>>
    \/ \E t \in rtasks : TaskRaise(t) /\ UNCHANGED <<stageVars, clsVars, combVars, splitVars, batchVars, longVars, nameVars, pollyVars, sliceVars>>
    \/ CloseExecutor /\ UNCHANGED <<stageVars, clsVars, combVars, splitVars, batchVars, longVars, nameVars, pollyVars, sliceVars>>
    \/ StepCombine /\ UNCHANGED <<stageVars, clsVars, combVars, splitVars, batchVars, longVars, nameVars, pollyVars, sliceVars>>
    \/ \E outcome \in {"created", "not found", "non-zero exit"} :
          StepExport(outcome) /\ UNCHANGED <<stageVars, clsVars, combVars, splitVars, batchVars, longVars, nameVars, pollyVars, sliceVars>>

SpecRun == Init /\ [][RunNext]_vars

SplitLongNext ==
    /\ long_text = NoFile
    /\ \E text \in LongTexts, limit \in 1..MaxWords :
          split_long_chunks(text, limit)
          /\ UNCHANGED <<stageVars, clsVars, combVars, splitVars, batchVars, runVars, nameVars, pollyVars, sliceVars>>

SpecSplitLong == Init /\ [][SplitLongNext]_vars

NamesNext ==
    \E i \in PageNumbers, j \in PageNumbers :
       write_pages(i, j)
       /\ UNCHANGED <<stageVars, clsVars, combVars, splitVars, batchVars, runVars, longVars, pollyVars, sliceVars>>

SpecNames == Init /\ [][NamesNext]_vars

PollyNext ==
    \/ generate_audio_from_chunks /\ UNCHANGED <<stageVars, clsVars, combVars, splitVars, batchVars, runVars, longVars, nameVars, sliceVars>>
    \/ synthesize_speech_aws_polly /\ UNCHANGED <<stageVars, clsVars, combVars, splitVars, batchVars, runVars, longVars, nameVars, sliceVars>>
    \/ start_speech_synthesis_task /\ UNCHANGED <<stageVars, clsVars, combVars, splitVars, batchVars, runVars, longVars, nameVars, sliceVars>>
    \/ \E status \in TaskStatuses : TaskProgress(status) /\ UNCHANGED <<stageVars, clsVars, combVars, splitVars, batchVars, runVars, longVars, nameVars, sliceVars>>
    \/ get_speech_synthesis_task /\ UNCHANGED <<stageVars, clsVars, combVars, splitVars, batchVars, runVars, longVars, nameVars, sliceVars>>
    \/ \E ok \in BOOLEAN : download_file(ok) /\ UNCHANGED <<stageVars, clsVars, combVars, splitVars, batchVars, runVars, longVars, nameVars, sliceVars>>
    \/ RaisePollyFailed /\ UNCHANGED <<stageVars, clsVars, combVars, splitVars, batchVars, runVars, longVars, nameVars, sliceVars>>
    \/ AudioReturn /\ UNCHANGED <<stageVars, clsVars, combVars, splitVars, batchVars, runVars, longVars, nameVars, sliceVars>>

SpecPolly == Init /\ [][PollyNext]_vars

(***************************************************************************)
(* Claims about the stage runner (checked under SpecStage).                *)
(***************************************************************************)
Statuses(u) == {reported[i][2] : i \in {j \in 1..Len(reported) : reported[j][1] = u}}

\* C1: whatever subset of the units' transforms raises, the stage never raises and can
\* always proceed to its return; when it has returned, every unit whose transform did
\* not raise has an output file and every unit whose transform raised was reported
\* with status "error".
C1_FailureIsolated ==
    /\ stagePc # "raised"
    /\ stagePc = "running" => ENABLED StageStep
    /\ stagePc = "returned" =>
          \A u \in chunk_paths :
             /\ u \in raisedNow => Statuses(u) = {"error"}
             /\ u \notin raisedNow => outDir[u] # NoFile

\* C1 witness: three units, the transform of unit 2 raised, the stage returned and
\* exactly units 1 and 3 are in the output directory.
C1_Witness ==
    /\ stagePc = "returned"
    /\ runNo = 1
    /\ raisedNow = {2}
    /\ {u \in chunk_paths : outDir[u] # NoFile} = {1, 3}

\* C2: a task whose transform raises writes nothing (its output path is as it was when
\* the invocation started, so with overwrite=false it has no output file), and an
\* invocation with overwrite=false calls the transform for exactly the units that had
\* no output file when it started; after an earlier overwrite=false invocation these
\* are exactly the units that invocation reported as "error".
C2_FailedUnitsAreRetried ==
    /\ \A u \in raisedNow : u \notin writes /\ outDir[u] = outAtStart[u]
    /\ ~overwrite => \A u \in raisedNow : outDir[u] = NoFile
    /\ (stagePc = "returned" /\ ~overwrite) =>
          calls = {u \in chunk_paths : outAtStart[u] = NoFile}
    /\ (stagePc = "returned" /\ ~overwrite /\ runNo >= 2 /\ ~prevOverwrite) =>
          calls = prevErrors

\* C2 witness: the first invocation failed on unit 2 alone; the second invocation has
\* returned, having called the transform for unit 2 only and skipped units 1 and 3.
C2_Witness ==
    /\ stagePc = "returned"
    /\ runNo = 2
    /\ ~overwrite /\ ~prevOverwrite
    /\ prevErrors = {2}
    /\ calls = {2}
    /\ task[1] = "skip" /\ task[3] = "skip"

SecondRunIsNoOp ==
    /\ calls = {}
    /\ writes = {}
    /\ outDir = outAtStart
    /\ stagePc = "returned" => \A u \in chunk_paths : Statuses(u) = {"skip"}

\* C3 as stated: a second invocation on the same directories calls no transform, writes
\* nothing, leaves every file as it was and reports every unit as skipped.
C3_SecondRunAlwaysNoOp ==
    (runNo >= 2 /\ stagePc \in {"running", "returned"}) => SecondRunIsNoOp

\* C3 amended: a second invocation with overwrite=false, after an invocation in which no
\* unit failed, calls no transform, writes nothing, leaves every file as it was and
\* reports every unit as skipped.
C3_SecondRunNoOpAfterSuccess ==
    (runNo >= 2 /\ ~overwrite /\ prevErrors = {}) => SecondRunIsNoOp

\* C3 witness: a second overwrite=false invocation has returned after a first one
\* without failures, every unit reported as skipped.
C3_Witness ==
    /\ stagePc = "returned"
    /\ runNo = 2
    /\ ~overwrite
    /\ prevErrors = {}
    /\ \A u \in chunk_paths : Statuses(u) = {"skip"} /\ outDir[u] = <<"completion", 1>>

(***************************************************************************)
(* Claims about the classifier router (checked under SpecClassify).        *)
(***************************************************************************)
DirsHolding(u) == {l \in Labels : clsDir[l][u] # NoFile}

\* C4: whenever classify_chunk has handled a unit: if the label function raised, or its
\* answer trimmed and lower-cased is not one of body, toc, bibliography, index, the unit
\* was written into the body directory; otherwise it was written into the directory of
\* that label.
C4_ClassifierFallback ==
    classified.unit # 0 =>
       LET answer == IF classified.response = Raises THEN Raises
                     ELSE lower(strip(classified.response))
           expected == IF answer \in Labels THEN answer ELSE body
       IN  /\ classified.label = expected
           /\ clsDir[expected][classified.unit] = PageText(classified.unit)

\* C4 witness: the answer " TOC\n" has sent unit 1 to toc and the label function then
\* raised on unit 2, which went to body.
C4_Witness ==
    /\ clsRuns = 1
    /\ DirsHolding(1) = {toc}
    /\ classified = [unit |-> 2, response |-> Raises, label |-> body]
    /\ DirsHolding(2) = {body}

\* C5: once classify_chunks has returned, every input unit is present in exactly one of
\* the label directories, however often it has been run.
C5_RoutedExactlyOnce ==
    clsPc = "returned" => \A u \in files : Cardinality(DirsHolding(u)) = 1

(***************************************************************************)
(* Claims about the combiner (checked under SpecCombine, and C7 under      *)
(* SpecCombineOrder).                                                      *)
(***************************************************************************)
\* A heading line: one or more '#', then whitespace.
IsHeadingLine(line) ==
    \E n \in 1..(Len(line) - 1) :
       /\ \A i \in 1..n : line[i] = "#"
       /\ line[n + 1] \in Whitespace

\* The normalized title of a heading line: what follows its '#', trimmed and lower-cased.
NormTitle(line) ==
    LET n == CHOOSE k \in 1..Len(line) :
                (\A i \in 1..k : line[i] = "#") /\ (k = Len(line) \/ line[k + 1] # "#")
    IN  lower(strip(SubSeq(line, n + 1, Len(line))))

RECURSIVE LinesOf(_)
LinesOf(ps) == IF ps = <<>> THEN <<>> ELSE splitlines(Head(ps)) \o LinesOf(Tail(ps))

HeadingsWith(lines, t) ==
    SelectSeq(lines, LAMBDA l : IsHeadingLine(l) /\ NormTitle(l) = t)

TitlesOf(lines) == {NormTitle(lines[i]) : i \in {j \in 1..Len(lines) : IsHeadingLine(lines[j])}}

\* C6: for every title that heading lines of the combined pages carry (equal after
\* trimming and lower-casing), the output holds exactly one heading line with that
\* title, and it is the first such line in page order.
C6_HeaderDedup ==
    output_file # NoFile =>
       \A t \in TitlesOf(LinesOf(pages)) :
          HeadingsWith(splitlines(output_file), t) = <<HeadingsWith(LinesOf(pages), t)[1]>>

\* C6 witness: the pages "# Intro\na" and "#  intro \nb" were combined and the
\* output keeps "# Intro" alone.
C6_Witness ==
    /\ pages = <<<<"#", " ", "I", "n", "t", "r", "o", "\n", "a">>, <<"#", " ", " ", "i", "n", "t", "r", "o", " ", "\n", "b">>>>
    /\ output_file = <<"#", " ", "I", "n", "t", "r", "o", "\n", "a", "\n", "\n", "b", "\n">>

\* The files of the directories dirs in the order the claim describes: directory by
\* directory as given, by name within a directory.
DirIndex(dirs, d) == CHOOSE i \in 1..Len(dirs) : dirs[i] = d

InOrder(dirs, f, g) ==
    \/ DirIndex(dirs, f.dir) < DirIndex(dirs, g.dir)
    \/ f.dir = g.dir /\ StrLess(f.name, g.name)

RECURSIVE Ordered(_, _)
Ordered(dirs, F) ==
    IF F = {} THEN <<>>
    ELSE LET f == CHOOSE x \in F : \A y \in F \ {x} : InOrder(dirs, x, y)
         IN  <<f>> \o Ordered(dirs, F \ {f})

OrderedFiles(dirs, ls) ==
    Ordered(dirs, {f \in Files(ls) : \E i \in 1..Len(dirs) : dirs[i] = f.dir})

TextsOf(fs) == [i \in 1..Len(fs) |-> fs[i].text]

\* C7: combine_all reads the pages directory by directory in the given order and by
\* name within a directory, and two executions whose producing stages created the same
\* files in different orders write the same combined document.
C7_OrderIndependent ==
    /\ output_file # NoFile =>
          pages = SelectSeq(TextsOf(OrderedFiles(input_dirs, listing)),
                            LAMBDA t : ~Contains(t, EMPTY))
    /\ (/\ output_file # NoFile
        /\ output_fileB # NoFile
        /\ Files(listingB) = Files(listing)
        /\ input_dirsB = input_dirs) => output_fileB = output_file

\* C7 witness: two files of one directory with the same heading in different spellings,
\* created in opposite orders by the two executions, and both outputs written.
C7_Witness ==
    /\ Len(listing) = 2
    /\ listing[1].dir = listing[2].dir
    /\ listing[1].text # listing[2].text
    /\ listingB = <<listing[2], listing[1]>>
    /\ input_dirs = <<listing[1].dir>>
    /\ output_file # NoFile
    /\ output_fileB = output_file

\* C8: the pages combined are exactly the pages that do not contain the marker, in
\* reading order; the output is what it would be with the marked files absent; and
\* every seen heading title comes from a heading line of a page that was combined.
C8_EmptyPagesExcluded ==
    output_file # NoFile =>
       LET kept == SelectSeq(listing, LAMBDA f : ~Contains(f.text, EMPTY))
       IN  /\ pages = TextsOf(OrderedFiles(input_dirs, kept))
           /\ output_file = remove_redundant_headers(read_pages(input_dirs, kept))
           /\ seen_headings = TitlesOf(LinesOf(TextsOf(OrderedFiles(input_dirs, kept))))

\* C8 witness: a page with the heading "# Intro" and the marker inside a line was left
\* out, and the later page's heading "#  intro " is in the output.
C8_Witness ==
    /\ Len(listing) = 2
    /\ listing[1] = [dir |-> "body", name |-> <<"p", "1", "0">>, text |-> <<"#", " ", "I", "n", "t", "r", "o", "\n", "x", "-", "-", "-", " ", "E", "M", "P", "T", "Y", " ", "-", "-", "-", "y">>]
    /\ listing[2] = [dir |-> "body", name |-> <<"p", "2">>, text |-> <<"#", " ", " ", "i", "n", "t", "r", "o", " ", "\n", "b">>]
    /\ input_dirs = <<"body">>
    /\ pages = <<<<"#", " ", " ", "i", "n", "t", "r", "o", " ", "\n", "b">>>>
    /\ output_file = <<"#", " ", " ", "i", "n", "t", "r", "o", " ", "\n", "b", "\n">>

(***************************************************************************)
(* Claims about the page splitter (checked under SpecSplit).               *)
(***************************************************************************)
IsMarkerAt(s, p) ==
    /\ p + Len(PAGE_BREAK) - 1 <= Len(s)
    /\ lower(SubSeq(s, p, p + Len(PAGE_BREAK) - 1)) = lower(PAGE_BREAK)

\* Where the marker occurs in s, in any letter case, counted from the left without overlap.
RECURSIVE MarkerStarts(_, _)
MarkerStarts(s, from) ==
    LET at == {p \in from..Len(s) : IsMarkerAt(s, p)}
    IN  IF at = {} THEN {}
        ELSE LET p == CHOOSE x \in at : \A y \in at : x <= y
             IN  {p} \cup MarkerStarts(s, p + Len(PAGE_BREAK))

\* s with the whitespace next to a marker or to either end of s left out and every
\* marker spelled as PAGE_BREAK: read from index i on, out being what is kept so far,
\* held the whitespace read since the last kept character, and edge telling that
\* nothing was kept since the start of s or the last marker.
RECURSIVE CanonFrom(_, _, _, _, _)
CanonFrom(s, i, out, held, edge) ==
    IF i > Len(s) THEN out
    ELSE IF IsMarkerAt(s, i)
         THEN CanonFrom(s, i + Len(PAGE_BREAK), out \o PAGE_BREAK, <<>>, TRUE)
    ELSE IF s[i] \in Whitespace
         THEN CanonFrom(s, i + 1, out, IF edge THEN <<>> ELSE Append(held, s[i]), edge)
    ELSE CanonFrom(s, i + 1, out \o held \o <<s[i]>>, <<>>, FALSE)

Canon(s) == CanonFrom(s, 1, <<>>, <<>>, TRUE)

Units == [i \in 1..Len(splitWrites) |-> splitWrites[i][2]]

\* The names page_0001 .. page_0009.
NthPage(i) == <<"p", "a", "g", "e", "_">> \o <<"0", "0", "0", Digit[i + 1]>>

SplitWritesKPlusOne ==
    /\ Len(splitWrites) = Cardinality(MarkerStarts(ocr_text, 1)) + 1
    /\ \A i \in 1..Len(splitWrites) :
          /\ splitWrites[i][1] = NthPage(i)
          /\ ocr_chunks[NthPage(i)] = splitWrites[i][2]
          /\ strip(splitWrites[i][2]) = splitWrites[i][2]

\* C9 as stated: with the marker occurring k times, split_ocr_text writes k+1 trimmed
\* units page_0001 .. page_(k+1) in source order, and joining them with the marker
\* reproduces the text.
C9_JoinReproducesText ==
    splitPc = "done" =>
       /\ SplitWritesKPlusOne
       /\ join(Units, PAGE_BREAK) = ocr_text

\* C9 amended: with the marker occurring k times (in any letter case, counted without
\* overlap), split_ocr_text writes k+1 trimmed units page_0001 .. page_(k+1) in source
\* order, and joining them with the marker reproduces the text except for the
\* whitespace next to a marker or to either end of the text and the markers' letter case.
C9_JoinReproducesTrimmedText ==
    splitPc = "done" =>
       /\ SplitWritesKPlusOne
       /\ join(Units, PAGE_BREAK) = Canon(ocr_text)

\* C9 witness: "A\n--- PAGE BREAK ---\nB" was split into page_0001 = "A" and
\* page_0002 = "B".
C9_Witness ==
    /\ splitPc = "done"
    /\ ocr_text = <<"A", "\n", "-", "-", "-", " ", "P", "A", "G", "E", " ", "B", "R", "E", "A", "K", " ", "-", "-", "-", "\n", "B">>
    /\ splitWrites = <<<<NthPage(1), <<"A">>>>, <<NthPage(2), <<"B">>>>>>

(***************************************************************************)
(* Claims about the batch runner (checked under SpecBatch).                *)
(***************************************************************************)
BatchEnded == batchPc \in {"done", "raised"}

\* Whether the narration file of the i-th document existed: when the loop tested it,
\* or, for a document the loop never reached, when the call ended.
ArtifactExisted(i) ==
    IF i \in ran \cup skipped
    THEN i \in processed
    ELSE "narration" \in tree[ProjectOf[input_files[i]]]

\* C10: when a run_batch call has ended, a document whose narration file existed was
\* not run if force is false, every document whose narration file did not exist was
\* run, and with force true every document was run.
C10_BatchRunsUnprocessed ==
    BatchEnded =>
       \A i \in 1..Len(input_files) :
          /\ (ArtifactExisted(i) /\ ~args.force) => i \notin ran
          /\ ~ArtifactExisted(i) => i \in ran
          /\ args.force => i \in ran

\* The second of two calls with the same arguments ran no stage and skipped every file.
RepeatedCallSkipsAll ==
    /\ ran = {}
    /\ runPc = "idle"
    /\ batchPc # "raised"
    /\ batchPc = "done" => skipped = 1..Len(input_files)

\* C11 as stated: for every combination of the stage flags, a run_batch call that
\* follows a returned call with the same arguments and force false runs no stage and
\* skips every document.
C11_SecondBatchSkipsAll == repeated => RepeatedCallSkipsAll

\* C11 amended: the same when generate_audio is set, so that the first call wrote the
\* narration file of every document it ran.
C11_SecondBatchSkipsAllWithAudio ==
    (repeated /\ args.generate_audio) => RepeatedCallSkipsAll

\* C11 witness: a second call with every stage flag set has returned after skipping
\* the three documents of the folder.
C11_Witness ==
    /\ repeated
    /\ batchPc = "done"
    /\ \A f \in Flags \ {"force"} : args[f]
    /\ Len(input_files) = 3
    /\ skipped = {1, 2, 3}
    /\ ran = {}

(***************************************************************************)
(* Claims about one pipeline run (checked under SpecRun).                  *)
(***************************************************************************)
\* The file a finished task wrote exists.
OutputWritten(t) == t.wrote \in rfiles

\* C12: while a later step of the run is under way (its executor open, or a combine or
\* export step about to run), every task an earlier step submitted has resolved (done,
\* skip or error) and the output of a done task has been written.
C12_StagesSequential ==
    \A t \in rtasks :
       (t.step < rpc \/ rphase # "tasks") =>
          /\ t.state \notin Unresolved
          /\ t.state = "done" => OutputWritten(t)

\* C12 witness: a translate task is calling the model after the clean step, in which
\* one unit failed and one was written, has ended.
C12_Witness ==
    /\ entry = "runner"
    /\ \E t \in rtasks : t.step = 4 /\ t.state = "calling"
    /\ \E t \in rtasks : t.step = 3 /\ t.state = "error"
    /\ \E t \in rtasks : t.step = 3 /\ t.state = "done"

(***************************************************************************)
(* Further claims about the stage runner (checked under SpecStage).        *)
(***************************************************************************)
\* C13: in every execution the main thread takes the units' results in input order
\* (the sorted order of chunk_paths), whatever order the tasks complete in.
C13_ReportedInInputOrder ==
    \A i, j \in 1..Len(reported) : i < j => reported[i][1] < reported[j][1]

\* C14: two tasks of one step that are running at the same time have different output
\* paths whatever labels the classifier settles on, and no file was written by more
\* than one task of a step.
C14_DistinctTargets ==
    \A t1, t2 \in rtasks :
       (t1 # t2 /\ t1.step = t2.step) =>
          /\ (t1.state = "calling" /\ t2.state = "calling") =>
                \A l1, l2 \in RunLabels : target(t1, l1) # target(t2, l2)
          /\ t1.wrote # <<>> => t1.wrote # t2.wrote

\* C14 witness: two clean tasks are calling the model at the same time, and two
\* classify tasks wrote under the same label.
C14_Witness ==
    /\ \E t1, t2 \in rtasks :
          t1 # t2 /\ t1.step = 3 /\ t2.step = 3 /\ t1.state = "calling" /\ t2.state = "calling"
    /\ \A t \in rtasks : t.step = 2 => t.wrote[1] = "classified_chunks/body"

Returned == entry # "none" /\ rpc = Len(Steps) + 1

\* C15: when the converter is missing or exits non-zero, generate_epub returns without
\* raising (the run is past the export step and has not raised), and a
\* PipelineRunner.run that has returned has run the steps after it: a rewrite task was
\* submitted for every translated unit and the narration was combined.
C15_ExportFailureNotFatal ==
    exported \in {"not found", "non-zero exit"} =>
       /\ rphase # "raised"
       /\ \E k \in 1..(rpc - 1) : Steps[k].op = "export"
       /\ (entry = "runner" /\ Returned) =>
             /\ \A u \in UnitsIn("translated_chunks") :
                   \E t \in rtasks : t.step = 7 /\ t.unit = u /\ t.state \notin Unresolved
             /\ "narration.md" \in DOMAIN rdocs

\* C15 witness: the converter was not found, and the run has returned with a narration
\* holding a unit.
C15_Witness ==
    /\ entry = "runner"
    /\ exported = "not found"
    /\ Returned
    /\ "narration.md" \in DOMAIN rdocs
    /\ rdocs["narration.md"] # <<>>

\* C16: a run given a language code that is not in the table of supported languages
\* takes no step: no file is written and no call to the language model is made.
C16_UnsupportedLanguageRejected ==
    (entry = "runner" /\ lang \notin DOMAIN LanguageNames) =>
       /\ rpc <= 1
       /\ rfiles = {}
       /\ rcalls = {}

\* The clean steps of the run are over and none of their tasks failed.
CleanedWithoutFailure ==
    /\ entry # "none"
    /\ \A k \in 1..Len(Steps) : Steps[k].op = "clean" => k < rpc
    /\ \A t \in rtasks : Steps[t.step].op = "clean" => t.state # "error"

\* C17: once the clean steps have completed without a failed unit, every unit of
\* classified_chunks/<label> has its unit in cleaned_chunks/<label>, for each of the
\* four labels, and when Project.run has returned every classified unit is in the
\* combined document.
C17_CleanedPerLabel ==
    CleanedWithoutFailure =>
       /\ \A label \in RunLabels : \A u \in UnitsIn("classified_chunks/" \o label) :
             u \in UnitsIn("cleaned_chunks/" \o label)
       /\ (entry = "project" /\ Returned) =>
             \A label \in RunLabels : \A u \in UnitsIn("classified_chunks/" \o label) :
                \E i \in 1..Len(rdocs["combined.md"]) : rdocs["combined.md"][i][2] = u

(***************************************************************************)
(* Claims about the sentence packer (checked under SpecSplitLong).         *)
(***************************************************************************)
\* C18: every batch written by split_long_chunks holds at most max_words words.
C18_BatchWithinMaxWords ==
    long_text # NoFile =>
       \A i \in 1..Len(long_writes) : word_count(long_writes[i][2]) <= max_words

\* The name <stem>_partNN of the i-th part, for i up to 9.
PartNN(i) == page_name(1) \o <<"_", "p", "a", "r", "t", "0">> \o <<Digit[i + 1]>>

\* C19: one batch is written as one file under the unit's own name; N >= 2 batches are
\* written as <stem>_part01 .. <stem>_partNN in order and nothing under the unit's own
\* name; a unit whose text is empty is written as one empty file.
C19_OneFileOrParts ==
    long_text # NoFile =>
       /\ Len(long_batches) >= 1
       /\ Len(long_batches) = 1 => long_writes = <<<<page_name(1), long_batches[1]>>>>
       /\ Len(long_batches) >= 2 =>
             /\ Len(long_writes) = Len(long_batches)
             /\ \A i \in 1..Len(long_writes) :
                   /\ long_writes[i] = <<PartNN(i), long_batches[i]>>
                   /\ long_writes[i][1] # page_name(1)
       /\ strip(long_text) = <<>> => long_writes = <<<<page_name(1), <<>>>>>>

\* C19 witness: "a. B" with max_words = 1 was written as the parts "a." and "B".
C19_Witness ==
    /\ long_text = <<"a", ".", " ", "B">>
    /\ max_words = 1
    /\ long_writes = <<<<PartNN(1), <<"a", ".">>>>, <<PartNN(2), <<"B">>>>>>

(***************************************************************************)
(* Further claims about the combiner (checked under SpecCombine).          *)
(***************************************************************************)
\* The k-th of lines is dropped: a heading line whose normalized title is that of an
\* earlier heading line.
Dropped(lines, k) ==
    /\ IsHeadingLine(lines[k])
    /\ \E j \in 1..(k - 1) :
          IsHeadingLine(lines[j]) /\ NormTitle(lines[j]) = NormTitle(lines[k])

\* What the claim has emitted for the pages ps, before being the lines of the pages
\* already read: each page's lines that are not dropped, then one empty line.
RECURSIVE Emitted(_, _)
Emitted(ps, before) ==
    IF ps = <<>> THEN <<>>
    ELSE LET all == before \o splitlines(Head(ps))
             keep == {k \in (Len(before) + 1)..Len(all) : ~Dropped(all, k)}
             kept == SelectSeq([k \in 1..Len(all) |-> IF k \in keep THEN <<all[k]>> ELSE <<>>],
                               LAMBDA x : x # <<>>)
         IN  [k \in 1..Len(kept) |-> kept[k][1]] \o <<<<>>>> \o Emitted(Tail(ps), all)

\* C20: the output is, joined by line breaks, the lines of the pages in order without
\* the heading lines whose normalized title an earlier heading line of any page had
\* (whatever their numbers of '#'), with one empty line after the lines of each page.
C20_OnlySeenHeadingsDropped ==
    output_file # NoFile => output_file = join(Emitted(pages, <<>>), <<"\n">>)

\* C20 witness: of the pages "# Intro\na" and "## INTRO\n#Intro\n\n--- EMPTY --" the
\* heading "## INTRO" alone was dropped.
C20_Witness ==
    /\ pages = <<<<"#", " ", "I", "n", "t", "r", "o", "\n", "a">>, <<"#", "#", " ", "I", "N", "T", "R", "O", "\n", "#", "I", "n", "t", "r", "o", "\n", "\n", "-", "-", "-", " ", "E", "M", "P", "T", "Y", " ", "-", "-">>>>
    /\ output_file = <<"#", " ", "I", "n", "t", "r", "o", "\n", "a", "\n", "\n", "#", "I", "n", "t", "r", "o", "\n", "\n", "-", "-", "-", " ", "E", "M", "P", "T", "Y", " ", "-", "-", "\n">>

(***************************************************************************)
(* Claims about the names of the page files (checked under SpecNames).     *)
(***************************************************************************)
\* C21: the lexicographic order of the generated names page_<i padded to 4 digits>
\* is the numeric order of i for every number of units, also above 9999: of two
\* pages i < j of one split, sorted() puts the file of page i first.
C21_NameOrderIsPageOrder ==
    page_i > 0 =>
        LET fs == sorted(<<[name |-> name_j], [name |-> name_i]>>)
        IN  fs[1].name = name_i /\ fs[2].name = name_j

(***************************************************************************)
(* Claims about the narration audio (checked under SpecPolly).             *)
(***************************************************************************)
\* synthesize_speech_aws_polly has left its poll loop.
PollLoopLeft == submits > 0 /\ audioPc \in {"polled", "loop", "returned", "raised"}

\* C22: synthesize_speech_aws_polly submits exactly one job and then polls; it leaves
\* the poll loop only on a poll that read "completed" or "failed", every poll before
\* that one having read another status; download_file is called only after
\* "completed" was read; after "failed" the call raises without a download; and the
\* call returns only after "completed" was read, however many polls that takes.
C22_SubmitPollFetch ==
    /\ audioPc \in {"polling", "polled"} => submits = 1
    /\ PollLoopLeft =>
          /\ submits = 1
          /\ polls # <<>>
          /\ polls[Len(polls)] \in PollEnds
          /\ task_status = polls[Len(polls)]
          /\ \A k \in 1..(Len(polls) - 1) : polls[k] \notin PollEnds
    /\ ~PollLoopLeft => downloads = 0
    /\ downloads > 0 => (downloads = 1 /\ task_status = "completed")
    /\ (PollLoopLeft /\ task_status = "failed") => (downloads = 0 /\ audioPc \in {"polled", "raised"})
    /\ (PollLoopLeft /\ audioPc \in {"loop", "returned"}) =>
          (task_status = "completed" /\ downloads = 1)

\* C22 witness: a call polled a task that was not finished, polled again, read
\* "completed", downloaded the result and returned to the loop.
C22_Witness ==
    /\ audioPc = "loop"
    /\ submits = 1
    /\ Len(polls) >= 2
    /\ polls[1] \notin PollEnds
    /\ downloads = 1
    /\ chunk_idx \in audio_files \/ (chunk_idx - 1) \in audio_files

(***************************************************************************)
(* Termination of the stage runner (checked under SpecStageFair).          *)
(***************************************************************************)
\* Every task of the invocation has resolved to one of completed, skipped, error.
AllResolved ==
    \A u \in chunk_paths : task[u] \in {"skip", DoneStatus(stageKind), "error"}

\* C23: when every call of the transform returns or raises and the workers are
\* scheduled fairly, every invocation of a stage runner returns, every unit task
\* having resolved to one of completed, skipped or error, whatever max_workers is.
C23_StageTerminates ==
    (stagePc = "running") ~> (stagePc = "returned" /\ AllResolved)

\* C23 witness: an invocation with fewer workers than units has returned with a
\* completed, a skipped and a failed unit.
C23_Witness ==
    /\ stagePc = "returned"
    /\ max_workers < NumUnits
    /\ \E u \in chunk_paths : task[u] = "skip"
    /\ \E u \in chunk_paths : task[u] = "error"
    /\ \E u \in chunk_paths : task[u] = DoneStatus(stageKind)

(***************************************************************************)
(* Claims about one classify_chunk call (checked under SpecSlice).         *)
(***************************************************************************)
\* C24: what classify_chunk writes for a unit, in the directory of its label, is the
\* first 2000 characters of the unit's content, the whole content when that is
\* shorter: nothing beyond character 2000 is in the classified unit.
C24_WritesFirst2000 ==
    chunk_text_in # NoFile =>
       /\ target_label \in Labels
       /\ target_text # NoFile
       /\ Len(target_text) = (IF Len(chunk_text_in) < 2000 THEN Len(chunk_text_in) ELSE 2000)
       /\ \A i \in 1..Len(target_text) : target_text[i] = chunk_text_in[i]

\* C24 witness: classify_chunk has written a unit of more than 2000 characters, and
\* the file holds 2000 of them.
C24_Witness ==
    /\ chunk_text_in # NoFile
    /\ Len(chunk_text_in) > 2000
    /\ Len(target_text) = 2000

(***************************************************************************)
(* Frame of the stage runner (checked under SpecStage).                    *)
(***************************************************************************)
\* During an invocation with overwrite=false, no file that was in the output directory
\* when the invocation started is touched: no transform is called for its unit, nothing
\* is written to it, its content is what it was.
ExistingFilesKept ==
    ~overwrite =>
       \A u \in chunk_paths :
          outAtStart[u] # NoFile => (u \notin calls /\ u \notin writes /\ outDir[u] = outAtStart[u])

\* C25 as stated: an output file that exists is never changed by a later overwrite=false
\* run of the stage, and a run with overwrite=true calls the transform for every unit
\* and rewrites every file.
C25_KeptOrRewritten ==
    /\ ExistingFilesKept
    /\ (overwrite /\ stagePc = "returned") =>
          /\ calls = chunk_paths
          /\ writes = chunk_paths
          /\ \A u \in chunk_paths : outDir[u] = call_gpt(runNo)

\* C25 amended: an output file that exists is never changed by a later overwrite=false
\* run of the stage; a run with overwrite=true calls the transform for every unit and
\* rewrites the file of every unit whose transform returns, while the file of a unit
\* whose transform raises stays as it was.
C25_KeptOrRewrittenUnlessRaised ==
    /\ ExistingFilesKept
    /\ (overwrite /\ stagePc = "returned") =>
          /\ calls = chunk_paths
          /\ writes = chunk_paths \ raisedNow
          /\ \A u \in writes : outDir[u] = call_gpt(runNo)
          /\ \A u \in raisedNow : outDir[u] = outAtStart[u]

\* C25 witness: a second run with overwrite=false has returned; the files of units 1
\* and 3, written by the first run, are as they were, and unit 2, which had failed,
\* holds what the second run's call returned.
C25_Witness ==
    /\ stagePc = "returned"
    /\ runNo = 2
    /\ ~overwrite
    /\ outAtStart[1] = call_gpt(1) /\ outDir[1] = call_gpt(1)
    /\ outAtStart[3] = call_gpt(1) /\ outDir[3] = call_gpt(1)
    /\ outAtStart[2] = NoFile /\ outDir[2] = call_gpt(2)

(***************************************************************************)
(* Further claims about the batch runner (checked under SpecBatch).        *)
(***************************************************************************)
\* C26: when a unit's clean, translate or rewrite transform failed for a document
\* during a run_batch call that returned, the next call with force=false over the same
\* documents (and the same flags) calls runner.run for that document again.
C26_FailedDocumentRunAgain ==
    (repeated /\ batchPc = "done") =>
       \A i \in 1..Len(input_files) :
          ProjectOf[input_files[i]] \in prev_failed => i \in ran

(***************************************************************************)
(* Claims about repeated splits into one folder (checked under            *)
(* SpecResplit).                                                           *)
(***************************************************************************)
\* C27: after any sequence of split_ocr_text calls writing to the same output folder,
\* the unit files in the folder are exactly the units of the most recent split, with
\* the contents it wrote.
C27_OnlyLatestUnits ==
    splitPc = "done" =>
       /\ DOMAIN ocr_chunks = {splitWrites[i][1] : i \in 1..Len(splitWrites)}
       /\ \A i \in 1..Len(splitWrites) : ocr_chunks[splitWrites[i][1]] = splitWrites[i][2]

(***************************************************************************)
(* Further claims about the sentence packer (checked under SpecSplitLong). *)
(***************************************************************************)
\* The sentences of the unit, as sentence_end cuts its trimmed text.
SentencesOf(text) == SplitSentences(strip(text), 1, 1)

\* C28: the batches written for a unit, in part order, hold every sentence of the
\* unit once and in the original order, each sentence wholly inside one batch: the
\* sentences fall into consecutive runs, one per batch in order, and each batch is
\* the sentences of its run joined by single spaces.
C28_NothingLostOrReordered ==
    long_text # NoFile =>
       LET sentences == SentencesOf(long_text)
           n == Len(sentences)
           m == Len(long_writes)
       IN  \E f \in [1..n -> 1..m] :
              /\ \A k \in 1..(n - 1) : f[k] <= f[k + 1]
              /\ \A j \in 1..m :
                    LET run == {k \in 1..n : f[k] = j}
                    IN  /\ run # {}
                        /\ \E lo \in run, hi \in run :
                              /\ \A k \in run : lo <= k /\ k <= hi
                              /\ long_writes[j][2] = join(SubSeq(sentences, lo, hi), <<" ">>)

\* C28 witness: a unit of three sentences was written as two parts, one of them
\* holding two sentences.
C28_Witness ==
    /\ long_text # NoFile
    /\ Len(SentencesOf(long_text)) = 3
    /\ Len(long_writes) = 2
    /\ \E j \in 1..2 : \E k \in 1..2 :
          long_writes[j][2] = join(SubSeq(SentencesOf(long_text), k, k + 1), <<" ">>)

====
